---- MODULE Spec2Model ----
(***************************************************************************)
(* Model of the AI form-filling pipeline of the job-application extension: *)
(* ResponseProcessor (src/responseProcessor.js), SmartFiller               *)
(* (src/smartFiller.js) and the orchestration in src/content.js.           *)
(*                                                                         *)
(* JavaScript strings are sequences of one-character strings, so that      *)
(* toLowerCase, the regular-expression strip of normalizeString, trim and  *)
(* String.prototype.includes are computed and not assumed.                 *)
(***************************************************************************)
EXTENDS Integers, Sequences, FiniteSets, TLC

Range(f) == {f[i] : i \in DOMAIN f}

\* the least element of a non-empty set of indices
First(S) == CHOOSE i \in S : \A j \in S : i <= j

(***************************************************************************)
(* Characters and strings                                                  *)
(***************************************************************************)
LowerChars ==
  <<"a","b","c","d","e","f","g","h","i","j","k","l","m",
    "n","o","p","q","r","s","t","u","v","w","x","y","z">>

UpperChars ==
  <<"A","B","C","D","E","F","G","H","I","J","K","L","M",
    "N","O","P","Q","R","S","T","U","V","W","X","Y","Z">>

DigitChars == <<"0","1","2","3","4","5","6","7","8","9">>

WhiteSpace == {" "}

ToLowerChar(c) ==
  IF \E i \in DOMAIN UpperChars : UpperChars[i] = c
  THEN LowerChars[CHOOSE i \in DOMAIN UpperChars : UpperChars[i] = c]
  ELSE c

toLowerCase(s) == [i \in 1..Len(s) |-> ToLowerChar(s[i])]

\* the character class [a-z0-9] of normalizeString's regular expression
IsLowerAlnum(c) == c \in Range(LowerChars) \cup Range(DigitChars)

\* String.prototype.includes
includes(hay, needle) ==
  \E i \in 0..(Len(hay) - Len(needle)) :
     SubSeq(hay, i + 1, i + Len(needle)) = needle

\* String.prototype.trim
trim(s) ==
  LET keep == {i \in 1..Len(s) : s[i] \notin WhiteSpace}
      Min(S) == CHOOSE x \in S : \A y \in S : x <= y
      Max(S) == CHOOSE x \in S : \A y \in S : x >= y
  IN  IF keep = {} THEN <<>> ELSE SubSeq(s, Min(keep), Max(keep))

(***************************************************************************)
(* JavaScript values carried by an AI response: string, boolean, null      *)
(***************************************************************************)
Str(s) == [t |-> "str", s |-> s, b |-> FALSE]
Bool(b) == [t |-> "bool", s |-> <<>>, b |-> b]
Null == [t |-> "null", s |-> <<>>, b |-> FALSE]

\* String(value)
StringOf(v) ==
  CASE v.t = "str" -> v.s
    [] v.t = "bool" -> IF v.b THEN <<"t","r","u","e">> ELSE <<"f","a","l","s","e">>
    [] OTHER -> <<"n","u","l","l">>

\* truthiness of a value (value || "")
Truthy(v) ==
  CASE v.t = "str" -> v.s # <<>>
    [] v.t = "bool" -> v.b
    [] OTHER -> FALSE

(***************************************************************************)
(* AI response: an object, modelled by its own entries in insertion order  *)
(* (Object.entries order for keys that are not array indices).             *)
(***************************************************************************)
hasOwnProperty(aiResponse, key) ==
  \E i \in DOMAIN aiResponse : aiResponse[i].key = key

Get(aiResponse, key) ==
  aiResponse[CHOOSE i \in DOMAIN aiResponse : aiResponse[i].key = key].value

(***************************************************************************)
(* ResponseProcessor                                                       *)
(***************************************************************************)
normalizeString(str) == SelectSeq(toLowerCase(str), IsLowerAlnum)

\* the commonMappings table of findByLabelMatch, in property order
commonMappings ==
  << [pattern |-> <<"f","i","r","s","t"," ","n","a","m","e">>,
      alternatives |-> << <<"f","i","r","s","t","n","a","m","e">>,
                          <<"f","n","a","m","e">>,
                          <<"g","i","v","e","n","_","n","a","m","e">> >>],
     [pattern |-> <<"l","a","s","t"," ","n","a","m","e">>,
      alternatives |-> << <<"l","a","s","t","n","a","m","e">>,
                          <<"l","n","a","m","e">>,
                          <<"s","u","r","n","a","m","e">>,
                          <<"f","a","m","i","l","y","_","n","a","m","e">> >>],
     [pattern |-> <<"e","m","a","i","l">>,
      alternatives |-> << <<"e","m","a","i","l","_","a","d","d","r","e","s","s">>,
                          <<"m","a","i","l">> >>],
     [pattern |-> <<"p","h","o","n","e">>,
      alternatives |-> << <<"t","e","l","e","p","h","o","n","e">>,
                          <<"m","o","b","i","l","e">>,
                          <<"p","h","o","n","e","_","n","u","m","b","e","r">> >>],
     [pattern |-> <<"a","d","d","r","e","s","s">>,
      alternatives |-> << <<"l","o","c","a","t","i","o","n">>,
                          <<"s","t","r","e","e","t">> >>],
     [pattern |-> <<"e","x","p","e","r","i","e","n","c","e">>,
      alternatives |-> << <<"y","e","a","r","s","_","e","x","p","e","r","i","e","n","c","e">>,
                          <<"w","o","r","k","_","e","x","p","e","r","i","e","n","c","e">> >>],
     [pattern |-> <<"s","a","l","a","r","y">>,
      alternatives |-> << <<"e","x","p","e","c","t","e","d","_","s","a","l","a","r","y">>,
                          <<"s","a","l","a","r","y","_","e","x","p","e","c","t","a","t","i","o","n">> >>] >>

\* the first loop of findByLabelMatch: the entry at which it returns
\* (0 when the loop runs to its end)
LabelLoopHit(normalizedLabel, aiResponse) ==
  LET hit(i) ==
        LET normalizedKey == normalizeString(aiResponse[i].key)
        IN  \/ normalizedLabel = normalizedKey
            \/ includes(normalizedLabel, normalizedKey)
            \/ includes(normalizedKey, normalizedLabel)
      hits == {i \in DOMAIN aiResponse : hit(i)}
  IN  IF hits = {} THEN 0 ELSE First(hits)

\* the second loop of findByLabelMatch: <<pattern index, alternative index>>
\* of the first alias found in the response (<<0, 0>> when none)
AliasHit(normalizedLabel, aiResponse) ==
  LET ok(p, a) ==
        /\ includes(normalizedLabel, commonMappings[p].pattern)
        /\ hasOwnProperty(aiResponse, commonMappings[p].alternatives[a])
      hits == {pa \in {<<p, a>> : p \in DOMAIN commonMappings, a \in 1..4} :
                 /\ pa[2] \in DOMAIN commonMappings[pa[1]].alternatives
                 /\ ok(pa[1], pa[2])}
      before(x, y) == x[1] < y[1] \/ (x[1] = y[1] /\ x[2] <= y[2])
  IN  IF hits = {} THEN <<0, 0>>
      ELSE CHOOSE x \in hits : \A y \in hits : before(x, y)

findByLabelMatch(label, aiResponse) ==
  LET normalizedLabel == normalizeString(label)
      i == LabelLoopHit(normalizedLabel, aiResponse)
      pa == AliasHit(normalizedLabel, aiResponse)
  IN  IF i # 0 THEN aiResponse[i].value
      ELSE IF pa # <<0, 0>>
           THEN Get(aiResponse, commonMappings[pa[1]].alternatives[pa[2]])
           ELSE Null

\* findAIValueForField with the name attribute consulted before the id
findAIValueForField_NameFirst(field, aiResponse) ==
  IF field.name # <<>> /\ hasOwnProperty(aiResponse, field.name)
  THEN Get(aiResponse, field.name)
  ELSE IF hasOwnProperty(aiResponse, field.id) THEN Get(aiResponse, field.id)
  ELSE IF field.htmlId # <<>> /\ hasOwnProperty(aiResponse, field.htmlId)
       THEN Get(aiResponse, field.htmlId)
  ELSE IF field.label # <<>> THEN findByLabelMatch(field.label, aiResponse)
  ELSE Null

findAIValueForField(field, aiResponse) ==
  IF hasOwnProperty(aiResponse, field.id) THEN Get(aiResponse, field.id)
  ELSE IF field.name # <<>> /\ hasOwnProperty(aiResponse, field.name)
       THEN Get(aiResponse, field.name)
  ELSE IF field.htmlId # <<>> /\ hasOwnProperty(aiResponse, field.htmlId)
       THEN Get(aiResponse, field.htmlId)
  ELSE IF field.label # <<>> THEN findByLabelMatch(field.label, aiResponse)
  ELSE Null

getMatchMethod(field, aiResponse) ==
  IF hasOwnProperty(aiResponse, field.id) THEN "direct_id"
  ELSE IF field.name # <<>> /\ hasOwnProperty(aiResponse, field.name)
       THEN "name_attribute"
  ELSE IF field.htmlId # <<>> /\ hasOwnProperty(aiResponse, field.htmlId)
       THEN "html_id"
  ELSE IF field.label # <<>> THEN "label_match"
  ELSE "unknown"

\* processBooleanValue(value)
processBooleanValue(value) ==
  IF value.t = "bool" THEN value.b
  ELSE LET strValue == toLowerCase(StringOf(value))
       IN  \/ strValue = <<"t","r","u","e">>
           \/ strValue = <<"y","e","s">>
           \/ strValue = <<"1">>

\* Array.prototype.find over field.options: index of the first option
\* among those that satisfy the predicate, 0 when there is none
FirstOrNone(hits) == IF hits = {} THEN 0 ELSE First(hits)

processRadioValue(value, field) ==
  IF field.options = <<>> THEN value
  ELSE LET options == field.options
           exactMatch == FirstOrNone({i \in DOMAIN options :
                           options[i].value = value \/ options[i].text = value})
           normalizedValue == normalizeString(value)
           fuzzyMatch == FirstOrNone({i \in DOMAIN options :
                           \/ includes(normalizeString(options[i].text), normalizedValue)
                           \/ includes(normalizeString(options[i].value), normalizedValue)})
       IN  IF exactMatch # 0 THEN options[exactMatch].value
           ELSE IF fuzzyMatch # 0 THEN options[fuzzyMatch].value
           ELSE value

processSelectValue(value, field) ==
  IF field.options = <<>> THEN value
  ELSE LET options == field.options
           exactMatch == FirstOrNone({i \in DOMAIN options :
                           options[i].value = value \/ options[i].text = value})
           normalizedValue == normalizeString(value)
           fuzzyMatch == FirstOrNone({i \in DOMAIN options :
                           \/ includes(normalizeString(options[i].text), normalizedValue)
                           \/ includes(normalizedValue, normalizeString(options[i].text))})
       IN  IF exactMatch # 0 THEN options[exactMatch].value
           ELSE IF fuzzyMatch # 0 THEN options[fuzzyMatch].value
           ELSE IF options[1].value # <<>> THEN options[1].value
           ELSE value

processTextareaValue(value) == trim(value)

\* Field types of this development.  "number" and "date" fields, whose
\* coercion goes through parseFloat and the Date parser, are not among them.
FieldTypes ==
  {"text", "email", "tel", "url", "checkbox", "radio", "select",
   "select-one", "combobox", "textarea", "file", "password"}

\* processValueForField(value, field): a string (Str) or a boolean (Bool)
processValueForField(value, field) ==
  IF value.t = "null" THEN Str(<<>>)
  ELSE LET processedValue == StringOf(value)
       IN  CASE field.type \in {"text", "email", "tel", "url"} ->
                  Str(trim(processedValue))
             [] field.type = "checkbox" -> Bool(processBooleanValue(value))
             [] field.type = "radio" ->
                  Str(processRadioValue(processedValue, field))
             [] field.type \in {"select", "select-one", "combobox"} ->
                  Str(processSelectValue(processedValue, field))
             [] field.type = "textarea" ->
                  Str(processTextareaValue(processedValue))
             [] OTHER -> Str(trim(processedValue))

NoError == ""

\* the mapping createFieldMappings builds for one field
MappingOf(field, aiResponse) ==
  LET aiValue == findAIValueForField(field, aiResponse)
      base == [fieldId |-> field.id, fieldType |-> field.type,
               fieldLabel |-> field.label, required |-> field.required,
               aiValue |-> Null, processedValue |-> Null, mapped |-> FALSE,
               skipped |-> FALSE, error |-> NoError, matchMethod |-> "null"]
  IN  IF aiValue # Null
      THEN [base EXCEPT !.aiValue = aiValue,
                        !.processedValue = processValueForField(aiValue, field),
                        !.mapped = TRUE,
                        !.matchMethod = getMatchMethod(field, aiResponse)]
      ELSE [base EXCEPT !.skipped = TRUE,
                        !.error = "No AI value found for field"]

\* createFieldMappings that pushes the mappings in the reverse order
createFieldMappings_Reversed(aiResponse, fields) ==
  [i \in 1..Len(fields) |-> MappingOf(fields[Len(fields) + 1 - i], aiResponse)]

createFieldMappings(aiResponse, fields) ==
  [i \in 1..Len(fields) |-> MappingOf(fields[i], aiResponse)]

\* getMappedFields(): mapping.mapped && !mapping.error
IsMappedField(mapping) == mapping.mapped /\ mapping.error = NoError

getMappedFields(mappings) == SelectSeq(mappings, IsMappedField)

\* the two messages of validateMappings; the only error text a mapping
\* carries is the one createFieldMappings sets
CriticalError(mapping) ==
  <<"R","e","q","u","i","r","e","d"," ","f","i","e","l","d"," ">> \o <<"\"">> \o mapping.fieldLabel \o <<"\"">> \o <<" ","n","o","t"," ","m","a","p","p","e","d">>

Warning(mapping) ==
  mapping.fieldLabel \o <<":"," ">> \o
  <<"N","o"," ","A","I"," ","v","a","l","u","e"," ","f","o","u","n","d"," ","f","o","r"," ","f","i","e","l","d">>

SelectRequired(mapping) == mapping.required
SelectRequiredMapped(mapping) == mapping.required /\ mapping.mapped
SelectRequiredUnmapped(mapping) == mapping.required /\ ~mapping.mapped
SelectError(mapping) == mapping.error # NoError

\* the warnings and the critical errors, in the order of the mappings
Warnings(mappings) ==
  LET withError == SelectSeq(mappings, SelectError)
  IN  [i \in DOMAIN withError |-> Warning(withError[i])]

CriticalErrors(mappings) ==
  LET missing == SelectSeq(mappings, SelectRequiredUnmapped)
  IN  [i \in DOMAIN missing |-> CriticalError(missing[i])]

\* validateMappings() with a validity flag that is never cleared
validateMappings_AlwaysValid(mappings) ==
  [valid |-> TRUE,
   requiredFieldsMapped |-> Len(SelectSeq(mappings, SelectRequiredMapped)),
   requiredFieldsTotal |-> Len(SelectSeq(mappings, SelectRequired)),
   warnings |-> Warnings(mappings),
   criticalErrors |-> CriticalErrors(mappings)]

\* validateMappings() over this.fieldMappings
validateMappings(mappings) ==
  [valid |-> SelectSeq(mappings, SelectRequiredUnmapped) = <<>>,
   requiredFieldsMapped |-> Len(SelectSeq(mappings, SelectRequiredMapped)),
   requiredFieldsTotal |-> Len(SelectSeq(mappings, SelectRequired)),
   warnings |-> Warnings(mappings),
   criticalErrors |-> CriticalErrors(mappings)]

SelectMapped(mapping) == mapping.mapped
SelectUnmapped(mapping) == ~mapping.mapped

\* processResponse(aiResponse, pageData) for an object aiResponse
\* a bipartite assignment: the entry that answered a field is taken out of
\* the response before the next field is matched
RECURSIVE ConsumingMappings(_, _)
ConsumingMappings(aiResponse, fields) ==
  IF fields = <<>> THEN <<>>
  ELSE LET m == MappingOf(Head(fields), aiResponse)
           left == SelectSeq(aiResponse, LAMBDA e : ~m.mapped \/ e.value # m.aiValue)
       IN  <<m>> \o ConsumingMappings(left, Tail(fields))

\* processResponse over a bipartite assignment of keys to fields
processResponse_Consuming(aiResponse, fields) ==
  LET mappings == ConsumingMappings(aiResponse, fields)
  IN  [success |-> TRUE,
       totalFields |-> Len(fields),
       aiValues |-> Len(aiResponse),
       mappedFields |-> Len(SelectSeq(mappings, SelectMapped)),
       unmappedFields |-> Len(SelectSeq(mappings, SelectUnmapped)),
       fieldMappings |-> mappings,
       validation |-> validateMappings(mappings)]

processResponse(aiResponse, fields) ==
  LET mappings == createFieldMappings(aiResponse, fields)
  IN  [success |-> TRUE,
       totalFields |-> Len(fields),
       aiValues |-> Len(aiResponse),
       mappedFields |-> Len(SelectSeq(mappings, SelectMapped)),
       unmappedFields |-> Len(SelectSeq(mappings, SelectUnmapped)),
       fieldMappings |-> mappings,
       validation |-> validateMappings(mappings)]

(***************************************************************************)
(* The live document.  dom is the sequence of form controls in document    *)
(* order; a control is                                                     *)
(*   [id, name, className, type, value, checked, disabled, readOnly,       *)
(*    visible, options, labelText, placeholder, legacyValue]               *)
(* visible stands for offsetParent !== null, labelText for the result of   *)
(* findLabelForElement, legacyValue for the value the legacy mapper maps   *)
(* to the control ("" when it maps none).  A world w = [dom, log, timers]  *)
(* is the document, the history of writes and dispatched events, and the   *)
(* pending timers.                                                         *)
(***************************************************************************)
PacingDelayMs == 50
ChangeDelayMs == 100
HighlightMs == 1500
AutoFillDelayMs == 1500

LogWrite(w, el, ctx, what) ==
  [w EXCEPT !.log = Append(@, [op |-> "write", name |-> what, el |-> el,
                               pass |-> ctx.pass, idx |-> ctx.idx])]

\* element.dispatchEvent(event)
dispatchEvent(w, el, ctx, eventName) ==
  [w EXCEPT !.log = Append(@, [op |-> "event", name |-> eventName, el |-> el,
                               pass |-> ctx.pass, idx |-> ctx.idx])]

\* setTimeout(callback, ms)
setTimeout(w, kind, el, ctx, ms) ==
  [w EXCEPT !.timers = Append(@, [kind |-> kind, rem |-> ms, el |-> el,
                                  pass |-> ctx.pass, idx |-> ctx.idx])]

\* element.value = v raises InvalidStateError on a file input unless v is ""
ValueSetThrows(element, v) == element.type = "file" /\ v # <<>>

\* element.value = v (the caller has checked ValueSetThrows); on a select the
\* value sticks only when one of its options carries it
SetValue(w, el, ctx, v) ==
  LET element == w.dom[el]
      stored == IF element.type = "select"
                   /\ \A i \in DOMAIN element.options : element.options[i].value # v
                THEN <<>> ELSE v
  IN  LogWrite([w EXCEPT !.dom[el].value = stored], el, ctx, "value")

\* createErrorResponse(error)
createErrorResponse(message) ==
  [success |-> FALSE, error |-> message, totalFields |-> 0, mappedFields |-> 0,
   unmappedFields |-> 0, fieldMappings |-> <<>>, errors |-> <<message>>]

\* an argument of a call: null / undefined, or an object
NullArg == [isNull |-> TRUE, v |-> <<>>]
Obj(v) == [isNull |-> FALSE, v |-> v]

\* the fields of a ResponseProcessor after its constructor or reset()
resetProcessor == [fieldMappings |-> <<>>, processedResponse |-> Null]

\* processResponse that resets the processor before it reads its arguments
processResponseCall_ResetFirst(processor, aiResponse, pageData) ==
  IF aiResponse.isNull
  THEN [processor |-> resetProcessor,
        returned |-> createErrorResponse("Cannot convert undefined or null to object")]
  ELSE IF pageData.isNull
       THEN [processor |-> resetProcessor,
             returned |-> createErrorResponse("Cannot read properties of null (reading 'fields')")]
  ELSE LET r == processResponse(aiResponse.v, pageData.v)
       IN  [processor |-> [fieldMappings |-> r.fieldMappings, processedResponse |-> r],
            returned |-> r]

\* a call processResponse(aiResponse, pageData) with its try/catch: the new
\* fields of the processor and the object returned.  Object.keys(aiResponse)
\* in the first statement throws for null before reset() is reached;
\* pageData.fields throws for null inside createFieldMappings, after reset()
\* and before this.fieldMappings is assigned.
processResponseCall(processor, aiResponse, pageData) ==
  IF aiResponse.isNull
  THEN [processor |-> processor,
        returned |-> createErrorResponse("Cannot convert undefined or null to object")]
  ELSE IF pageData.isNull
       THEN [processor |-> resetProcessor,
             returned |-> createErrorResponse("Cannot read properties of null (reading 'fields')")]
  ELSE LET r == processResponse(aiResponse.v, pageData.v)
       IN  [processor |-> [fieldMappings |-> r.fieldMappings, processedResponse |-> r],
            returned |-> r]

\* (x / y * 100).toFixed(1), in tenths of a percent; "NaN" for 0 / 0
PercentTenths(x, y) ==
  IF y = 0 THEN "NaN" ELSE (2000 * x + y) \div (2 * y)

\* getSummary()
getSummary(response) ==
  IF response = Null THEN [error |-> "No processed response available"]
  ELSE [success |-> response.success,
        totalFields |-> response.totalFields,
        mappedFields |-> response.mappedFields,
        unmappedFields |-> response.unmappedFields,
        successRate |-> PercentTenths(response.mappedFields, response.totalFields),
        requiredFieldsOk |-> response.validation.valid]

(***************************************************************************)
(* SmartFiller                                                             *)
(***************************************************************************)
\* a CSS class selector "." + fieldId parses only when fieldId is an
\* identifier (field ids here are made of letters, digits and "_")
IsCssIdent(s) ==
  /\ s # <<>>
  /\ s[1] \notin Range(DigitChars)
  /\ \A i \in 1..Len(s) :
       s[i] \in Range(LowerChars) \cup Range(UpperChars) \cup Range(DigitChars) \cup {"_"}

\* findElement(fieldMapping): [threw, el], el = 0 for null
findElement(fieldMapping, dom) ==
  LET fieldId == fieldMapping.fieldId
      byId == {i \in DOMAIN dom : dom[i].id = fieldId}
      byName == {i \in DOMAIN dom : dom[i].name = fieldId}
      byClass == {i \in DOMAIN dom : dom[i].className = fieldId}
      wanted == toLowerCase(fieldMapping.fieldLabel)
      byLabel == {i \in DOMAIN dom :
                    /\ dom[i].labelText # <<>>
                    /\ includes(toLowerCase(dom[i].labelText), wanted)}
      labelStep == IF fieldMapping.fieldLabel # <<>> /\ byLabel # {}
                   THEN [threw |-> FALSE, el |-> First(byLabel)]
                   ELSE [threw |-> FALSE, el |-> 0]
  IN  IF fieldId # <<>>
      THEN IF byId # {} THEN [threw |-> FALSE, el |-> First(byId)]
           ELSE IF byName # {} THEN [threw |-> FALSE, el |-> First(byName)]
           ELSE IF ~IsCssIdent(fieldId) THEN [threw |-> TRUE, el |-> 0]
           ELSE IF byClass # {} THEN [threw |-> FALSE, el |-> First(byClass)]
           ELSE labelStep
      ELSE labelStep

\* isElementFillable that does not look at element.disabled
isElementFillable_IgnoresDisabled(element) ==
  ~element.readOnly /\ element.visible

isElementFillable(element) ==
  ~element.disabled /\ ~element.readOnly /\ element.visible

\* parseBooleanValue(value)
parseBooleanValue(value) ==
  IF value.t = "bool" THEN value.b
  ELSE LET strValue == trim(toLowerCase(StringOf(value)))
       IN  \/ strValue = <<"t","r","u","e">>
           \/ strValue = <<"y","e","s">>
           \/ strValue = <<"1">>
           \/ strValue = <<"o","n">>
           \/ strValue = <<"c","h","e","c","k","e","d">>

\* String(value || "")
StringOrEmpty(value) == IF Truthy(value) THEN StringOf(value) ELSE <<>>

\* a step of a fill function: the world it leaves, whether it returned
\* true, and whether it threw instead of returning
Ret(w, ok) == [w |-> w, ok |-> ok, threw |-> FALSE]
Threw(w) == [w |-> w, ok |-> FALSE, threw |-> TRUE]

\* triggerInputEvents(element): never throws; each event is built with the
\* Event constructor, else with document.createEvent, else dropped
triggerInputEvents(w, el, ctx, env) ==
  LET one(v, eventName) ==
        IF env.eventCtor \/ env.createEvent
        THEN dispatchEvent(v, el, ctx, eventName) ELSE v
      w4 == one(one(one(one(w, "input"), "change"), "blur"), "keyup")
  IN  setTimeout(w4, "change", el, ctx, ChangeDelayMs)

\* triggerChangeEvent(element): throws when the Event constructor does
triggerChangeEvent(w, el, ctx, env) ==
  IF env.eventCtor THEN Ret(dispatchEvent(w, el, ctx, "change"), TRUE)
  ELSE Threw(w)

\* fillTextInput / fillTextarea
fillTextInput(w, el, ctx, env, value) ==
  LET v == IF value.t = "str" THEN value.s ELSE StringOrEmpty(value)
  IN  IF ValueSetThrows(w.dom[el], v) THEN Ret(w, FALSE)
      ELSE Ret(triggerInputEvents(SetValue(w, el, ctx, v), el, ctx, env), TRUE)

fillTextarea(w, el, ctx, env, value) == fillTextInput(w, el, ctx, env, value)

\* element.value = x on a control, followed by triggerChangeEvent
SetThenChange(w, el, ctx, env, x) ==
  IF ValueSetThrows(w.dom[el], x) THEN Threw(w)
  ELSE triggerChangeEvent(SetValue(w, el, ctx, x), el, ctx, env)

fillSelect(w, el, ctx, env, value) ==
  LET options == w.dom[el].options
      str == toLowerCase(StringOf(value))
      exact == {i \in DOMAIN options : value.t = "str" /\ options[i].value = value.s}
      text == {i \in DOMAIN options : toLowerCase(trim(options[i].text)) = str}
      partial == {i \in DOMAIN options :
                    includes(toLowerCase(trim(options[i].text)), str)}
  IN  IF exact # {} THEN SetThenChange(w, el, ctx, env, value.s)
      ELSE IF text # {} THEN SetThenChange(w, el, ctx, env, options[First(text)].value)
      ELSE IF partial # {}
           THEN SetThenChange(w, el, ctx, env, options[First(partial)].value)
      ELSE Ret(w, FALSE)

\* element.checked = b
SetChecked(w, el, ctx, b) ==
  LogWrite([w EXCEPT !.dom[el].checked = b], el, ctx, "checked")

fillCheckbox(w, el, ctx, env, value) ==
  triggerChangeEvent(SetChecked(w, el, ctx, parseBooleanValue(value)), el, ctx, env)

\* radio.checked = true: the browser unchecks the other radios of the group
CheckRadio(w, r, ctx) ==
  LET grp == {i \in DOMAIN w.dom :
                w.dom[i].type = "radio" /\ w.dom[i].name = w.dom[r].name}
      d == [i \in DOMAIN w.dom |->
              IF i = r THEN [w.dom[i] EXCEPT !.checked = TRUE]
              ELSE IF i \in grp THEN [w.dom[i] EXCEPT !.checked = FALSE]
              ELSE w.dom[i]]
  IN  LogWrite([w EXCEPT !.dom = d], r, ctx, "checked")

fillRadio(w, el, ctx, env, value) ==
  LET name == w.dom[el].name
      radioButtons == {i \in DOMAIN w.dom :
                         w.dom[i].type = "radio" /\ w.dom[i].name = name}
      byValue == {i \in radioButtons : value.t = "str" /\ w.dom[i].value = value.s}
      str == toLowerCase(StringOf(value))
      byLabel == {i \in radioButtons :
                    /\ w.dom[i].labelText # <<>>
                    /\ includes(toLowerCase(w.dom[i].labelText), str)}
  IN  IF name = <<>>
      THEN triggerChangeEvent(SetChecked(w, el, ctx, parseBooleanValue(value)),
                              el, ctx, env)
      ELSE IF byValue # {}
           THEN triggerChangeEvent(CheckRadio(w, First(byValue), ctx),
                                   First(byValue), ctx, env)
      ELSE IF byLabel # {}
           THEN triggerChangeEvent(CheckRadio(w, First(byLabel), ctx),
                                   First(byLabel), ctx, env)
      ELSE Ret(w, FALSE)

fillFileInput(w, el, ctx, env, value) == Ret(w, FALSE)

\* fillByFieldType(element, fieldMapping): the dispatch on the field type and
\* the catch block with its raw assignment
fillByFieldType(w, el, ctx, env, fieldMapping) ==
  LET fieldType == IF fieldMapping.fieldType # "" THEN fieldMapping.fieldType
                   ELSE w.dom[el].type
      value == fieldMapping.processedValue
      r == CASE fieldType \in {"text", "email", "tel", "url", "password"} ->
                  fillTextInput(w, el, ctx, env, value)
             [] fieldType = "textarea" -> fillTextarea(w, el, ctx, env, value)
             [] fieldType \in {"select", "select-one", "combobox"} ->
                  fillSelect(w, el, ctx, env, value)
             [] fieldType = "checkbox" -> fillCheckbox(w, el, ctx, env, value)
             [] fieldType = "radio" -> fillRadio(w, el, ctx, env, value)
             [] fieldType = "file" -> fillFileInput(w, el, ctx, env, value)
             [] OTHER -> fillTextInput(w, el, ctx, env, value)
      caught == [r.w EXCEPT !.log = Append(@, [op |-> "throw", name |-> "setter",
                                               el |-> el, pass |-> ctx.pass,
                                               idx |-> ctx.idx])]
      rawThrew == [caught EXCEPT !.log = Append(@, [op |-> "throw", name |-> "raw",
                                                    el |-> el, pass |-> ctx.pass,
                                                    idx |-> ctx.idx])]
  IN  IF ~r.threw THEN r
      ELSE IF ValueSetThrows(caught.dom[el], StringOrEmpty(value))
           THEN Ret(rawThrew, FALSE)
      ELSE Ret(SetValue(caught, el, ctx, StringOrEmpty(value)), TRUE)

\* an entry of filledFields / failedFields / skippedFields: the mapping with
\* its error or reason, tagged with the fillForm call and position it
\* belongs to
Entry(fieldMapping, ctx, note) ==
  [fieldId |-> fieldMapping.fieldId, fieldType |-> fieldMapping.fieldType,
   value |-> fieldMapping.processedValue, note |-> note,
   pass |-> ctx.pass, idx |-> ctx.idx]

\* fillSingleField without its try/catch: an exception of findElement
\* leaves the function
fillSingleField_NoCatch(sf, w, ctx, env, fieldMapping) ==
  LET found == findElement(fieldMapping, w.dom)
      skip(note) == [sf |-> [sf EXCEPT !.skippedFields =
                                 Append(@, Entry(fieldMapping, ctx, note))],
                     w |-> w, threw |-> FALSE]
      fail(v, note) == [sf |-> [sf EXCEPT !.failedFields =
                                    Append(@, Entry(fieldMapping, ctx, note))],
                        w |-> v, threw |-> FALSE]
      lookupThrew == [w EXCEPT !.log = Append(@, [op |-> "throw", name |-> "lookup",
                                                  el |-> 0, pass |-> ctx.pass,
                                                  idx |-> ctx.idx])]
  IN  IF ~fieldMapping.mapped \/ fieldMapping.processedValue = Null
      THEN skip("No processed value available")
      ELSE IF found.threw THEN [sf |-> sf, w |-> lookupThrew, threw |-> TRUE]
      ELSE IF found.el = 0 THEN fail(w, "Element not found in DOM")
      ELSE IF ~isElementFillable(w.dom[found.el])
           THEN skip("Element not fillable (disabled/readonly)")
      ELSE LET r == fillByFieldType(w, found.el, ctx, env, fieldMapping)
           IN  IF r.threw THEN [sf |-> sf, w |-> r.w, threw |-> TRUE]
               ELSE IF r.ok
               THEN [sf |-> [sf EXCEPT !.filledFields =
                                 Append(@, Entry(fieldMapping, ctx, ""))],
                     w |-> setTimeout(LogWrite(r.w, found.el, ctx, "style"),
                                      "restore", found.el, ctx, HighlightMs),
                     threw |-> FALSE]
               ELSE fail(r.w, "Failed to fill field")

\* fillSingleField(fieldMapping) on the filler state sf and the world w.
\* Its try block covers the whole body, so threw is FALSE on every path;
\* an exception of findElement or of fillByFieldType ends in the catch block.
fillSingleField(sf, w, ctx, env, fieldMapping) ==
  LET found == findElement(fieldMapping, w.dom)
      skip(note) == [sf |-> [sf EXCEPT !.skippedFields =
                                 Append(@, Entry(fieldMapping, ctx, note))],
                     w |-> w, threw |-> FALSE]
      fail(v, note) == [sf |-> [sf EXCEPT !.failedFields =
                                    Append(@, Entry(fieldMapping, ctx, note))],
                        w |-> v, threw |-> FALSE]
      lookupThrew == [w EXCEPT !.log = Append(@, [op |-> "throw", name |-> "lookup",
                                                  el |-> 0, pass |-> ctx.pass,
                                                  idx |-> ctx.idx])]
  IN  IF ~fieldMapping.mapped \/ fieldMapping.processedValue = Null
      THEN skip("No processed value available")
      ELSE IF found.threw THEN fail(lookupThrew, "SyntaxError")
      ELSE IF found.el = 0 THEN fail(w, "Element not found in DOM")
      ELSE IF ~isElementFillable(w.dom[found.el])
           THEN skip("Element not fillable (disabled/readonly)")
      ELSE LET r == fillByFieldType(w, found.el, ctx, env, fieldMapping)
           IN  IF r.threw THEN fail(r.w, "Error")
               ELSE IF r.ok
               THEN [sf |-> [sf EXCEPT !.filledFields =
                                 Append(@, Entry(fieldMapping, ctx, ""))],
                     w |-> setTimeout(LogWrite(r.w, found.el, ctx, "style"),
                                      "restore", found.el, ctx, HighlightMs),
                     threw |-> FALSE]
               ELSE fail(r.w, "Failed to fill field")

\* reset()
reset == [filledFields |-> <<>>, failedFields |-> <<>>, skippedFields |-> <<>>]

\* Math.round(x / y * 100) for naturals x <= y, y > 0: round half up
RoundPercent(x, y) == (200 * x + y) \div (2 * y)

\* calculateSuccessRate with Math.floor in place of Math.round
calculateSuccessRate_Floor(sf) ==
  LET total == Len(sf.filledFields) + Len(sf.failedFields)
  IN  IF total = 0 THEN 0 ELSE (100 * Len(sf.filledFields)) \div total

calculateSuccessRate(sf) ==
  LET total == Len(sf.filledFields) + Len(sf.failedFields)
  IN  IF total = 0 THEN 0 ELSE RoundPercent(Len(sf.filledFields), total)

createFillSummary(sf) ==
  [success |-> TRUE,
   totalAttempted |-> Len(sf.filledFields) + Len(sf.failedFields)
                        + Len(sf.skippedFields),
   filled |-> Len(sf.filledFields),
   failed |-> Len(sf.failedFields),
   skipped |-> Len(sf.skippedFields),
   successRate |-> calculateSuccessRate(sf),
   filledFields |-> sf.filledFields,
   failedFields |-> sf.failedFields,
   skippedFields |-> sf.skippedFields]

(***************************************************************************)
(* Legacy mapper (src/fieldMapper.js), as far as it touches the document   *)
(***************************************************************************)
\* numbers as parseInt produces them: NaN, or an integer
NaN == [nan |-> TRUE, n |-> 0]
Num(n) == [nan |-> FALSE, n |-> n]

IsDigit(c) == c \in Range(DigitChars)
DigitVal(c) == (CHOOSE i \in DOMAIN DigitChars : DigitChars[i] = c) - 1

\* the value of a sequence of decimal digits
RECURSIVE DigitsValue(_)
DigitsValue(ds) ==
  IF ds = <<>> THEN 0
  ELSE 10 * DigitsValue(SubSeq(ds, 1, Len(ds) - 1)) + DigitVal(ds[Len(ds)])

\* the number of leading digits of a string
LeadingDigits(body) ==
  LET stops == {i \in DOMAIN body : ~IsDigit(body[i])}
  IN  IF stops = {} THEN Len(body) ELSE First(stops) - 1

\* the integer read from the first n characters, NaN when there is none
ReadDigits(body, n) ==
  IF n = 0 THEN NaN ELSE Num(DigitsValue(SubSeq(body, 1, n)))

ParseDigits(body) == ReadDigits(body, LeadingDigits(body))

Negated(number) == IF number.nan THEN number ELSE Num(0 - number.n)

\* parseInt of a string without leading white space
ParseSigned(t) ==
  IF t = <<>> THEN NaN
  ELSE IF t[1] = "-" THEN Negated(ParseDigits(Tail(t)))
  ELSE IF t[1] = "+" THEN ParseDigits(Tail(t))
  ELSE ParseDigits(t)

\* parseInt(string): leading white space and a sign are skipped, the longest
\* prefix of digits is read, whatever follows is ignored
parseInt(str) == ParseSigned(trim(str))

\* a decimal literal without sign: digits with at most one point
IsDecimalLiteral(body) ==
  /\ \A i \in DOMAIN body : IsDigit(body[i]) \/ body[i] = "."
  /\ Cardinality({i \in DOMAIN body : body[i] = "."}) <= 1
  /\ \E i \in DOMAIN body : IsDigit(body[i])

\* Number(string) is a number; the empty string converts to 0
IsNumeric(t) ==
  IF t = <<>> THEN TRUE
  ELSE IF t[1] \in {"-", "+"} THEN IsDecimalLiteral(Tail(t))
  ELSE IsDecimalLiteral(t)

\* isNaN(string) for strings made of digits, signs, points and other
\* characters; exponent, hexadecimal and Infinity literals are not covered
isNaN(str) == ~IsNumeric(trim(str))

\* Number.prototype.toString for a natural number
RECURSIVE NatToString(_)
NatToString(n) ==
  IF n < 10 THEN <<DigitChars[n + 1]>>
  ELSE Append(NatToString(n \div 10), DigitChars[(n % 10) + 1])

Abs(x) == IF x < 0 THEN 0 - x ELSE x

\* a || b for two results of parseInt: NaN and 0 are falsy
OrElse(a, b) == IF a.nan \/ a.n = 0 THEN b ELSE a

\* parseInt(opt.value) || parseInt(opt.text)
OptionValue(opt) == OrElse(parseInt(opt.value), parseInt(opt.text))

\* the forEach of findBestDropdownOption over the options from index i on,
\* with the index of the closest option so far (0 for none) and its
\* difference; Closer is the body of the loop for option i
RECURSIVE closestOption(_, _, _, _, _)
RECURSIVE Closer(_, _, _, _, _, _)
Closer(options, numericValue, i, closest, smallestDiff, optValue) ==
  IF ~optValue.nan /\ (closest = 0 \/ Abs(numericValue - optValue.n) < smallestDiff)
  THEN closestOption(options, numericValue, i + 1, i, Abs(numericValue - optValue.n))
  ELSE closestOption(options, numericValue, i + 1, closest, smallestDiff)

closestOption(options, numericValue, i, closest, smallestDiff) ==
  IF i > Len(options) THEN closest
  ELSE Closer(options, numericValue, i, closest, smallestDiff, OptionValue(options[i]))

\* the three searches of findBestDropdownOption: the index of the option
\* found, 0 for none
ExactOption(options, searchLower) ==
  FirstOrNone({i \in DOMAIN options :
                 \/ toLowerCase(options[i].value) = searchLower
                 \/ toLowerCase(options[i].text) = searchLower})

PartialOption(options, searchLower) ==
  FirstOrNone({i \in DOMAIN options :
                 \/ includes(toLowerCase(options[i].text), searchLower)
                 \/ includes(toLowerCase(options[i].value), searchLower)
                 \/ includes(searchLower, toLowerCase(options[i].text))
                 \/ includes(searchLower, toLowerCase(options[i].value))})

NumericOption(options, searchValue) ==
  IF isNaN(searchValue) THEN 0
  ELSE closestOption(options, parseInt(searchValue).n, 1, 0, 0)

\* the value of the first search that found an option, else null
FirstFound(options, exactMatch, partialMatch, closest) ==
  IF exactMatch # 0 THEN Str(options[exactMatch].value)
  ELSE IF partialMatch # 0 THEN Str(options[partialMatch].value)
  ELSE IF closest # 0 THEN Str(options[closest].value)
  ELSE Null

\* findBestDropdownOption(options, searchValue) for a string searchValue;
\* the result is an option value, or Null
findBestDropdownOption(options, searchValue) ==
  IF searchValue = <<>> THEN Null
  ELSE FirstFound(options,
                  ExactOption(options, toLowerCase(searchValue)),
                  PartialOption(options, toLowerCase(searchValue)),
                  NumericOption(options, searchValue))

\* calculateTotalExperience(cvData), from the months its loop adds up
calculateTotalExperience(cv) ==
  [years |-> cv.totalMonths \div 12, months |-> cv.totalMonths % 12,
   totalMonths |-> cv.totalMonths]

\* FieldDetector.getFieldLabel(input).toLowerCase()
getFieldLabel(element) ==
  toLowerCase(IF element.placeholder # <<>> THEN element.placeholder
              ELSE IF element.labelText # <<>> THEN element.labelText
              ELSE IF element.name # <<>> THEN element.name
              ELSE element.id)

\* FieldDetector.isExperienceField with no text near the control: every
\* keyword of the list contains one of these three
isExperienceField(labelText) ==
  \/ includes(labelText, <<"e","x","p","e","r","i","e","n","c","e">>)
  \/ includes(labelText, <<"y","e","a","r","s">>)
  \/ includes(labelText, <<"m","o","n","t","h","s">>)

\* detectFieldWithContext returns type "experienceYears"
IsExperienceYears(element) ==
  /\ element.type = "select"
  /\ isExperienceField(getFieldLabel(element))
  /\ \E i \in DOMAIN element.options :
       \E j \in DOMAIN element.options[i].value : IsDigit(element.options[i].value[j])

\* a mapped value as the control record keeps it: "" for null
StringOrNone(r) == IF r = Null THEN <<>> ELSE r.s

\* getMappedValue for an experience-years dropdown; the mapped value of
\* every other control is the one the control record carries
getMappedValue(element, cv) ==
  IF IsExperienceYears(element)
  THEN StringOrNone(findBestDropdownOption(element.options,
                      NatToString(calculateTotalExperience(cv).years)))
  ELSE element.legacyValue

\* mapFields(detectedFields, cvData): the mapped value is kept with the
\* control it was computed for
mapFields(w, cv) ==
  [w EXCEPT !.dom = [i \in DOMAIN w.dom |->
                       [w.dom[i] EXCEPT !.legacyValue = getMappedValue(w.dom[i], cv)]]]

\* applyMappedValues over the controls from index i on: [w, threw].  A
\* control is written only when it is empty or shows its placeholder; the
\* Event constructor of FieldMapper.triggerInputEvents is not guarded.
RECURSIVE applyMappedValues_Overwrites(_, _, _, _)
applyMappedValues_Overwrites(w, i, ctx, env) ==
  IF i > Len(w.dom) THEN [w |-> w, threw |-> FALSE]
  ELSE LET element == w.dom[i]
           eligible == element.legacyValue # <<>>
       IN  IF ~eligible THEN applyMappedValues_Overwrites(w, i + 1, ctx, env)
           ELSE IF ValueSetThrows(element, element.legacyValue)
                THEN [w |-> w, threw |-> TRUE]
           ELSE IF ~env.eventCtor
                THEN [w |-> SetValue(w, i, ctx, element.legacyValue), threw |-> TRUE]
           ELSE applyMappedValues_Overwrites(
                  dispatchEvent(dispatchEvent(SetValue(w, i, ctx, element.legacyValue),
                                              i, ctx, "input"), i, ctx, "change"),
                  i + 1, ctx, env)

RECURSIVE applyMappedValues(_, _, _, _)
applyMappedValues(w, i, ctx, env) ==
  IF i > Len(w.dom) THEN [w |-> w, threw |-> FALSE]
  ELSE LET element == w.dom[i]
           eligible == /\ element.legacyValue # <<>>
                       /\ (element.value = <<>> \/ element.value = element.placeholder)
       IN  IF ~eligible THEN applyMappedValues(w, i + 1, ctx, env)
           ELSE IF ValueSetThrows(element, element.legacyValue)
                THEN [w |-> w, threw |-> TRUE]
           ELSE IF ~env.eventCtor
                THEN [w |-> SetValue(w, i, ctx, element.legacyValue), threw |-> TRUE]
           ELSE applyMappedValues(
                  dispatchEvent(dispatchEvent(SetValue(w, i, ctx, element.legacyValue),
                                              i, ctx, "input"), i, ctx, "change"),
                  i + 1, ctx, env)

(***************************************************************************)
(* Field, response and document catalogs                                   *)
(***************************************************************************)
MaxKeys == 2
MaxTriggers == 1
MaxPasses == MaxTriggers + 1
MaxYears == 8

NoOptions == <<>>

Field(id, name, htmlId, label, type, options, required) ==
  [id |-> id, name |-> name, htmlId |-> htmlId, label |-> label,
   type |-> type, options |-> options, required |-> required]

E(key, value) == [key |-> key, value |-> value]

CountryOptions ==
  << [value |-> <<"U","S">>, text |-> <<"U","n","i","t","e","d"," ","S","t","a","t","e","s">>],
     [value |-> <<"C","A">>, text |-> <<"C","a","n","a","d","a">>] >>

AuthOptions ==
  << [value |-> <<"y">>, text |-> <<"Y","e","s">>], [value |-> <<"n">>, text |-> <<"N","o">>] >>

\* a list whose option values are positions and whose texts are numbers
YearsOptions ==
  << [value |-> <<"0">>, text |-> <<"1">>], [value |-> <<"1">>, text |-> <<"2">>],
     [value |-> <<"2">>, text |-> <<"3","+">>] >>

\* a list whose texts carry punctuation
DegreeOptions ==
  << [value |-> <<"b","a">>, text |-> <<"B",".","A",".">>], [value |-> <<"m","b","a">>, text |-> <<"M","B","A">>] >>

ExperienceOptions ==
  << [value |-> <<"0","-","1">>, text |-> <<"0","-","1"," ","y","e","a","r","s">>], [value |-> <<"2","-","3">>, text |-> <<"2","-","3"," ","y","e","a","r","s">>],
     [value |-> <<"4","-","5">>, text |-> <<"4","-","5"," ","y","e","a","r","s">>], [value |-> <<"5","+">>, text |-> <<"5","+"," ","y","e","a","r","s">>] >>

F_email1 == Field(<<"e","m","a","i","l","1">>, <<"e","m","a","i","l","1">>, <<>>, <<"E","m","a","i","l"," ","A","d","d","r","e","s","s">>, "email", NoOptions, TRUE)
F_uid == Field(<<"u","i","d">>, <<"u","n","a","m","e">>, <<"h","i","d">>, <<"E","m","a","i","l">>, "text", NoOptions, FALSE)
F_first == Field(<<"f","1">>, <<>>, <<>>, <<"F","i","r","s","t"," ","N","a","m","e">>, "text", NoOptions, TRUE)
F_last == Field(<<"l","1">>, <<>>, <<>>, <<"L","a","s","t"," ","N","a","m","e">>, "text", NoOptions, FALSE)
F_phone == Field(<<"p","1">>, <<>>, <<>>, <<"P","h","o","n","e">>, "tel", NoOptions, FALSE)
F_country == Field(<<"c","o","u","n","t","r","y">>, <<>>, <<"c","o","u","n","t","r","y">>, <<"C","o","u","n","t","r","y">>, "select", CountryOptions, TRUE)
F_auth == Field(<<"a","u","t","h">>, <<"a","u","t","h">>, <<>>, <<"A","u","t","h","o","r","i","z","e","d">>, "radio", AuthOptions, FALSE)
F_agree == Field(<<"a","g","r","e","e">>, <<>>, <<"a","g","r","e","e">>, <<"A","g","r","e","e">>, "checkbox", NoOptions, FALSE)
F_resume == Field(<<"r","e","s","u","m","e">>, <<>>, <<"r","e","s","u","m","e">>, <<"R","e","s","u","m","e">>, "file", NoOptions, FALSE)
F_2fa == Field(<<"2","f","a">>, <<>>, <<"2","f","a">>, <<>>, "text", NoOptions, FALSE)

F_years == Field(<<"y","e","a","r","s">>, <<>>, <<"y","e","a","r","s">>, <<"Y","e","a","r","s">>, "select", YearsOptions, FALSE)
F_degree == Field(<<"d","e","g","r","e","e">>, <<>>, <<"d","e","g","r","e","e">>, <<"D","e","g","r","e","e">>, "select", DegreeOptions, FALSE)
F_exp == Field(<<"e","x","p">>, <<>>, <<"e","x","p">>, <<"Y","e","a","r","s"," ","o","f"," ","e","x","p","e","r","i","e","n","c","e">>, "select", ExperienceOptions, FALSE)
F_otp == Field(<<"2","f","a","_","c","o","d","e">>, <<>>, <<"2","f","a","_","c","o","d","e">>, <<"S","e","c","u","r","i","t","y"," ","c","o","d","e">>, "text", NoOptions, FALSE)

\* the response entries tried against each field
EntriesFor(field) ==
  CASE field = F_email1 ->
         {E(<<"e","m","a","i","l","1">>, Str(<<"a","@","x",".","c","o","m">>)), E(<<"e","m","a","i","l","_","a","d","d","r","e","s","s">>, Str(<<"b","@","x",".","c","o","m">>)),
          E(<<"e","m","a","i","l">>, Str(<<"c","@","x",".","c","o","m">>)), E(<<"m","a","i","l">>, Str(<<"d","@","x",".","c","o","m">>))}
    [] field = F_uid ->
         {E(<<"u","i","d">>, Str(<<"A">>)), E(<<"u","n","a","m","e">>, Str(<<"B">>)), E(<<"h","i","d">>, Str(<<"C">>)),
          E(<<"e","m","a","i","l">>, Str(<<"D">>)), E(<<"e","_","m","a","i","l">>, Str(<<"E">>)), E(<<"m","a","i","l">>, Str(<<"F">>))}
    [] field = F_first ->
         {E(<<"f","n","a","m","e">>, Str(<<"I","g","o","r">>)), E(<<"g","i","v","e","n","_","n","a","m","e">>, Str(<<"I","h","o","r">>)),
          E(<<"f","i","r","s","t","n","a","m","e">>, Str(<<"I","g","g","y">>)), E(<<"f","i","r","s","t","_","n","a","m","e","_","1">>, Str(<<"I","o">>)),
          E(<<"n","a","m","e">>, Str(<<"I"," ","V">>)), E(<<"z","i","p">>, Str(<<"0","7">>))}
    [] field = F_last ->
         {E(<<"l","n","a","m","e">>, Str(<<"V">>)), E(<<"s","u","r","n","a","m","e">>, Str(<<"V","i">>)),
          E(<<"f","a","m","i","l","y","_","n","a","m","e">>, Str(<<"V","i","n">>)), E(<<"l","a","s","t","n","a","m","e">>, Str(<<"V","i","n","s">>)),
          E(<<"z","i","p">>, Str(<<"0","7">>))}
    [] field = F_phone ->
         {E(<<"m","o","b","i","l","e">>, Str(<<"5","5","5">>)), E(<<"t","e","l","e","p","h","o","n","e">>, Str(<<"5","5","6">>)),
          E(<<"p","h","o","n","e","_","n","u","m","b","e","r">>, Str(<<"5","5","7">>)), E(<<"_","_","_">>, Str(<<"5","5","8">>)), E(<<"p","1">>, Null)}
    [] field = F_country ->
         {E(<<"c","o","u","n","t","r","y">>, Str(<<"U","S">>)), E(<<"c","o","u","n","t","r","y">>, Str(<<"K","a","n","a","d","a">>)),
          E(<<"c","o","u","n","t","r","y">>, Str(<<"c","a","n","a","d","a">>)), E(<<"c","o","u","n","t","r","y">>, Str(<<"C","a","n","a","d","a",","," ","e","h">>)),
          E(<<"C","o","u","n","t","r","y",":">>, Str(<<"C","A">>))}
    [] field = F_auth ->
         {E(<<"a","u","t","h">>, Str(<<"y">>)), E(<<"a","u","t","h">>, Str(<<"Y","e","s">>)), E(<<"a","u","t","h">>, Str(<<"m","a","y","b","e">>)),
          E(<<"a","u","t","h","o","r","i","z","e","d">>, Str(<<"n","o">>))}
    [] field = F_agree ->
         {E(<<"a","g","r","e","e">>, Str(<<"t","r","u","e">>)), E(<<"a","g","r","e","e">>, Str(<<"Y","e","s">>)), E(<<"a","g","r","e","e">>, Str(<<"1">>)),
          E(<<"a","g","r","e","e">>, Str(<<"o","n">>)), E(<<"a","g","r","e","e">>, Str(<<"C","H","E","C","K","E","D">>)), E(<<"a","g","r","e","e">>, Str(<<"n","o">>)),
          E(<<"a","g","r","e","e">>, Str(<<" ","t","r","u","e">>)), E(<<"a","g","r","e","e">>, Bool(TRUE)), E(<<"a","g","r","e","e">>, Bool(FALSE)),
          E(<<"A","g","r","e","e","?">>, Str(<<"O","n">>))}
    [] field = F_resume ->
         {E(<<"r","e","s","u","m","e">>, Str(<<"c","v",".","p","d","f">>)), E(<<"r","e","s","u","m","e">>, Str(<<>>)), E(<<"R","e","s","u","m","e">>, Str(<<"x">>))}
    [] field = F_years ->
         {E(<<"y","e","a","r","s">>, Str(<<"0">>)), E(<<"y","e","a","r","s">>, Str(<<"1">>)), E(<<"y","e","a","r","s">>, Str(<<"2">>)), E(<<"y","e","a","r","s">>, Str(<<"3">>))}
    [] field = F_degree ->
         {E(<<"d","e","g","r","e","e">>, Str(<<"m","b","a">>)), E(<<"d","e","g","r","e","e">>, Str(<<"M","B","A"," ","d","e","g","r","e","e">>)), E(<<"d","e","g","r","e","e">>, Str(<<"b",".","a",".">>)),
          E(<<"d","e","g","r","e","e">>, Str(<<"P","h","D">>))}
    [] OTHER -> {E(<<"2","f","a">>, Str(<<"1","2","3","4","5","6">>))}

\* the objects with at most n own keys taken from entries, in every
\* insertion order
RECURSIVE Objects(_, _)
Objects(entries, n) ==
  IF n = 0 THEN {<<>>}
  ELSE LET shorter == Objects(entries, n - 1)
       IN  shorter \cup
           {Append(o, e) : o \in {x \in shorter : Len(x) = n - 1},
                           e \in entries}

DistinctKeys(o) == \A i, j \in DOMAIN o : i # j => o[i].key # o[j].key

Responses(entries, n) == {o \in Objects(entries, n) : o # <<>> /\ DistinctKeys(o)}

\* an id or name attribute of a control; a page that rendered the form again
\* after it was analysed gives its controls new ids and names
Rerendered(attr, state) ==
  IF state = "renamed" /\ attr # <<>> THEN <<"r","_">> \o attr ELSE attr

\* the controls of the page that belong to a field: one control, or one
\* radio per option of a radio group; none when the page dropped them
Control(field, type, value, labelText, state) ==
  [id |-> IF type = "radio" THEN <<>>
          ELSE Rerendered(IF field.htmlId # <<>> THEN field.htmlId ELSE field.id,
                          state),
   name |-> Rerendered(field.name, state), className |-> <<>>, type |-> type,
   value |-> value,
   checked |-> FALSE, disabled |-> (state = "disabled"),
   readOnly |-> (state = "readonly" /\ type # "select"),
   visible |-> (state # "hidden"), options |-> field.options,
   labelText |-> labelText, placeholder |-> <<>>,
   legacyValue |-> IF type \in {"text", "email", "tel"} THEN <<"c","v">> ELSE <<>>]

ControlsOf(field, state) ==
  IF state = "absent" THEN <<>>
  ELSE IF field.type = "radio"
       THEN [i \in DOMAIN field.options |->
               Control(field, "radio", field.options[i].value,
                       field.options[i].text, state)]
  ELSE << Control(field, field.type, <<>>, field.label, state) >>

ControlStates == {"live", "disabled", "readonly", "hidden", "absent", "renamed"}

Envs ==
  {[eventCtor |-> TRUE, createEvent |-> TRUE],
   [eventCtor |-> FALSE, createEvent |-> TRUE],
   [eventCtor |-> FALSE, createEvent |-> FALSE]}

\* single-field pages: every catalog field against every response over its
\* entries, filled by one manual trigger
ReconcileFields ==
  {F_email1, F_uid, F_first, F_last, F_phone, F_country, F_auth, F_agree, F_resume,
   F_years, F_degree}

ReconcileScenarios ==
  UNION {{[fields |-> <<f>>, reply |-> r, dom |-> ControlsOf(f, st),
           env |-> [eventCtor |-> TRUE, createEvent |-> TRUE],
           autoFillEnabled |-> FALSE, cvValid |-> TRUE, budget |-> 1,
           cv |-> [totalMonths |-> 0]] :
            st \in {"live", "absent"}, r \in Responses(EntriesFor(f), MaxKeys)} :
         f \in ReconcileFields}

\* two-field pages filled by the page-load timer and by manual triggers
Page(fields, states, reply) ==
  [fields |-> fields, reply |-> reply,
   dom |-> ControlsOf(fields[1], states[1]) \o ControlsOf(fields[2], states[2])]

Pages ==
  {Page(<<F_first, F_agree>>, <<"live", "live">>,
        <<E(<<"f","1">>, Str(<<"I","g","o","r">>)), E(<<"a","g","r","e","e">>, Str(<<"o","n">>))>>),
   Page(<<F_2fa, F_first>>, <<"absent", "live">>,
        <<E(<<"2","f","a">>, Str(<<"1","2","3","4","5","6">>)), E(<<"f","1">>, Str(<<"I","g","o","r">>))>>),
   Page(<<F_country, F_resume>>, <<"live", "live">>,
        <<E(<<"c","o","u","n","t","r","y">>, Str(<<"K","a","n","a","d","a">>)), E(<<"r","e","s","u","m","e">>, Str(<<"c","v",".","p","d","f">>))>>),
   Page(<<F_auth, F_last>>, <<"live", "disabled">>,
        <<E(<<"a","u","t","h">>, Str(<<"Y","e","s">>)), E(<<"l","n","a","m","e">>, Str(<<"V">>))>>),
   Page(<<F_country, F_agree>>, <<"live", "live">>,
        <<E(<<"a","g","r","e","e">>, Str(<<"t","r","u","e">>))>>),
   Page(<<F_otp, F_first>>, <<"renamed", "live">>,
        <<E(<<"2","f","a","_","c","o","d","e">>, Str(<<"1","2","3","4","5","6">>)), E(<<"f","1">>, Str(<<"I","g","o","r">>))>>),
   Page(<<F_phone, F_first>>, <<"renamed", "live">>,
        <<E(<<"p","1">>, Str(<<"5","5","5">>)), E(<<"f","1">>, Str(<<"I","g","o","r">>))>>),
   Page(<<F_first, F_agree>>, <<"readonly", "hidden">>,
        <<E(<<"f","1">>, Str(<<"I","g","o","r">>)), E(<<"a","g","r","e","e">>, Str(<<"t","r","u","e">>))>>),
   Page(<<F_country, F_first>>, <<"disabled", "live">>,
        <<E(<<"c","o","u","n","t","r","y">>, Str(<<"C","A">>)), E(<<"f","1">>, Str(<<"I","g","o","r">>))>>),
   Page(<<F_email1, F_uid>>, <<"live", "live">>,
        <<E(<<"e","m","a","i","l">>, Str(<<"c","@","x",".","c","o","m">>))>>),
   Page(<<F_first, F_last>>, <<"live", "live">>, <<>>)}

\* a field as PageAnalyzer read it before the page had loaded its options
Unpopulated(field) == [field EXCEPT !.options = NoOptions]

\* pages whose option lists arrived after the analysis, with an empty answer
LatePages ==
  {[fields |-> <<Unpopulated(F_country), F_first>>,
    reply |-> <<E(<<"c","o","u","n","t","r","y">>, Str(<<>>)), E(<<"f","1">>, Str(<<"I","g","o","r">>))>>,
    dom |-> ControlsOf(F_country, "live") \o ControlsOf(F_first, "live")],
   [fields |-> <<Unpopulated(F_auth), F_first>>,
    reply |-> <<E(<<"a","u","t","h">>, Str(<<>>)), E(<<"f","1">>, Str(<<"I","g","o","r">>))>>,
    dom |-> ControlsOf(F_auth, "live") \o ControlsOf(F_first, "live")]}

\* a radio group whose second radio is disabled
MixedPages ==
  {[fields |-> <<F_auth, F_first>>,
    reply |-> <<E(<<"a","u","t","h">>, Str(<<"n">>)), E(<<"f","1">>, Str(<<"I","g","o","r">>))>>,
    dom |-> <<Control(F_auth, "radio", AuthOptions[1].value, AuthOptions[1].text, "live"),
              Control(F_auth, "radio", AuthOptions[2].value, AuthOptions[2].text, "disabled")>>
            \o ControlsOf(F_first, "live")]}

PipelineScenarios ==
  {[fields |-> pg.fields, reply |-> pg.reply, dom |-> pg.dom, env |-> e,
    autoFillEnabled |-> a, cvValid |-> c, budget |-> MaxTriggers,
    cv |-> [totalMonths |-> 0]] :
     pg \in Pages \cup LatePages \cup MixedPages, e \in Envs, a \in BOOLEAN,
     c \in BOOLEAN}

\* a page with an experience dropdown for which the AI has no answer, so
\* that the legacy mapper fills it from the stored experience
LegacyScenarios ==
  {[fields |-> <<F_exp, F_first>>, reply |-> <<>>,
    dom |-> ControlsOf(F_exp, "live") \o ControlsOf(F_first, "live"),
    env |-> [eventCtor |-> TRUE, createEvent |-> TRUE],
    autoFillEnabled |-> TRUE, cvValid |-> TRUE, budget |-> MaxTriggers,
    cv |-> [totalMonths |-> 12 * y + 6]] : y \in 0..MaxYears}

Scenarios == ReconcileScenarios \cup PipelineScenarios \cup LegacyScenarios

(***************************************************************************)
(* AIService.sendAIRequest (src/unnamed/part_009)                          *)
(***************************************************************************)
\* this.maxRetries
maxRetries == 3

NoValidResponse == <<"N","o"," ","v","a","l","i","d"," ","r","e","s","p","o","n","s","e"," ","f","r","o","m"," ","A","I">>

\* what one call of makeOpenAICall / makeLocalAPICall can come to: a
\* response with content, a response without, or a rejection with a message
Content(c) == [kind |-> "content", content |-> c, message |-> <<>>]
Rejected(m) == [kind |-> "error", content |-> <<>>, message |-> m]

CallOutcomes ==
  {Content(<<"{","f","1",":","1","}">>), Content(<<>>),
   Rejected(<<"R","e","q","u","e","s","t"," ","t","i","m","e","o","u","t"," ","-"," ","A","I"," ","s","e","r","v","i","c","e"," ","t","o","o","k"," ","t","o","o"," ","l","o","n","g"," ","t","o"," ","r","e","s","p","o","n","d">>),
   Rejected(<<"F","a","i","l","e","d"," ","t","o"," ","f","e","t","c","h">>),
   Rejected(<<"A","P","I"," ","E","r","r","o","r"," ","5","0","0",":"," ","C","o","n","n","e","c","t","i","o","n"," ","r","e","s","e","t">>),
   Rejected(<<"A","P","I"," ","E","r","r","o","r"," ","4","0","1",":"," ","I","n","c","o","r","r","e","c","t"," ","A","P","I"," ","k","e","y"," ","p","r","o","v","i","d","e","d">>),
   Rejected(<<"A","P","I"," ","E","r","r","o","r"," ","4","2","9",":"," ","Y","o","u"," ","e","x","c","e","e","d","e","d"," ","y","o","u","r"," ","c","u","r","r","e","n","t"," ","q","u","o","t","a">>),
   Rejected(<<"L","o","c","a","l"," ","L","L","M"," ","c","o","n","n","e","c","t","i","o","n"," ","f","a","i","l","e","d",":"," ","r","e","f","u","s","e","d">>)}

\* the error the try block ends with, for an outcome without content
ErrorMessage(outcome) ==
  IF outcome.kind = "error" THEN outcome.message ELSE NoValidResponse

\* the condition of "Don't retry on certain errors" with the test for
\* "connection" left out
NoRetry_WithoutConnection(message) ==
  \/ includes(message, <<"A","P","I"," ","k","e","y">>)
  \/ includes(message, <<"q","u","o","t","a">>)

\* the condition of "Don't retry on certain errors"
NoRetry(message) ==
  \/ includes(message, <<"A","P","I"," ","k","e","y">>)
  \/ includes(message, <<"q","u","o","t","a">>)
  \/ includes(message, <<"c","o","n","n","e","c","t","i","o","n">>)

\* Math.pow(2, attempt) * 1000
RECURSIVE Backoff(_)
Backoff(attempt) == IF attempt = 0 THEN 1000 ELSE 2 * Backoff(attempt - 1)

FailedAfter(message) ==
  <<"A","I"," ","r","e","q","u","e","s","t"," ","f","a","i","l","e","d"," ","a","f","t","e","r"," ","3"," ","a","t","t","e","m","p","t","s",":"," ">> \o message

NoRequest == [pc |-> "idle", attempt |-> 0, lastError |-> <<>>, calls |-> <<>>,
              sleeps |-> <<>>, result |-> <<>>]

(***************************************************************************)
(* State                                                                   *)
(***************************************************************************)
VARIABLES
  pageFields,       \* pageData.fields as PageAnalyzer extracts them
  aiReply,          \* the object the AI service answers with for this page
  env,              \* which event constructors the page environment supports
  autoFillEnabled,  \* settings.autoFillEnabled
  cvValid,          \* CVDataStructure.validateCVData(cvData)
  cvData,           \* the stored CV, as far as the legacy mapper reads it
  budget,           \* "triggerAutoFill" messages the popup may still send
  initPc,           \* position of the start-up function of content.js
  passes,           \* the calls of aiAutoFillForm, by number
  nPasses,          \* calls of aiAutoFillForm made so far
  fieldMappings,    \* responseProcessor.fieldMappings
  processedResponse, \* responseProcessor.processedResponse
  smartFiller,      \* the three lists of the shared SmartFiller
  dom,              \* the form controls of the document
  domLog,           \* history of writes, dispatched events and caught throws
  timers,           \* pending setTimeout callbacks, in creation order
  aiService,        \* the call of AIService.sendAIRequest under way, if any
  lastResponse      \* what the most recent processResponse call returned

vars == <<pageFields, aiReply, env, autoFillEnabled, cvValid, cvData, budget, initPc,
          passes, nPasses, fieldMappings, processedResponse, smartFiller, dom,
          domLog, timers, aiService, lastResponse>>

inputs == <<pageFields, aiReply, env, autoFillEnabled, cvValid, cvData>>

W == [dom |-> dom, log |-> domLog, timers |-> timers]

SetWorld(w) == dom' = w.dom /\ domLog' = w.log /\ timers' = w.timers

NoResult == [success |-> FALSE, via |-> "none", legacyOk |-> FALSE,
             fill |-> createFillSummary(reset)]

IdlePass == [pc |-> "none", forceRun |-> FALSE, mappedFields |-> <<>>,
             idx |-> 0, result |-> NoResult]

Init ==
  \E sc \in Scenarios :
    /\ pageFields = sc.fields
    /\ aiReply = sc.reply
    /\ env = sc.env
    /\ autoFillEnabled = sc.autoFillEnabled
    /\ cvValid = sc.cvValid
    /\ cvData = sc.cv
    /\ budget = sc.budget
    /\ dom = sc.dom
    /\ initPc = "loadSettings"
    /\ passes = [p \in 1..MaxPasses |-> IdlePass]
    /\ nPasses = 0
    /\ fieldMappings = <<>>
    /\ processedResponse = Null
    /\ smartFiller = reset
    /\ domLog = <<>>
    /\ timers = <<>>
    /\ aiService = NoRequest
    /\ lastResponse = <<>>

(***************************************************************************)
(* Timers: the pending callback with the least remaining delay runs next,  *)
(* the oldest one among equals; time advances only to that instant.        *)
(***************************************************************************)
NextTimer ==
  IF timers = <<>> THEN 0
  ELSE First({i \in DOMAIN timers : \A j \in DOMAIN timers : timers[i].rem <= timers[j].rem})

AfterFire(ts, i) ==
  [k \in 1..(Len(ts) - 1) |->
     LET t == ts[IF k < i THEN k ELSE k + 1]
     IN  [t EXCEPT !.rem = @ - ts[i].rem]]

Due(kind) == NextTimer # 0 /\ timers[NextTimer].kind = kind

(***************************************************************************)
(* content.js                                                              *)
(***************************************************************************)
\* start-up function, after `await storageManager.loadSettings()`
InitSettingsLoaded ==
  /\ initPc = "loadSettings"
  /\ initPc' = "done"
  /\ timers' = IF autoFillEnabled
               THEN Append(timers, [kind |-> "autofill", rem |-> AutoFillDelayMs,
                                    el |-> 0, pass |-> 0, idx |-> 0])
               ELSE timers
  /\ UNCHANGED <<inputs, aiService, lastResponse, budget, passes, nPasses, fieldMappings,
                 processedResponse, smartFiller,
                 dom, domLog>>

\* aiAutoFillForm(forceRun) up to `await storageManager.loadCVData()`
StartPass(forceRun) ==
  /\ nPasses < MaxPasses
  /\ nPasses' = nPasses + 1
  /\ passes' = [passes EXCEPT ![nPasses + 1] =
                  [IdlePass EXCEPT !.pc = "loadCV", !.forceRun = forceRun]]

\* the page-load timer calls aiAutoFillForm()
AutoFillTimer ==
  /\ Due("autofill")
  /\ StartPass(FALSE)
  /\ timers' = AfterFire(timers, NextTimer)
  /\ UNCHANGED <<inputs, aiService, lastResponse, budget, initPc, fieldMappings, processedResponse,
                 smartFiller, dom, domLog>>

\* the onMessage listener receives "triggerAutoFill"
TriggerAutoFill ==
  /\ budget > 0
  /\ budget' = budget - 1
  /\ StartPass(TRUE)
  /\ UNCHANGED <<inputs, aiService, lastResponse, initPc, fieldMappings, processedResponse,
                 smartFiller, dom, domLog, timers>>

CVDataLoaded(p) ==
  /\ passes[p].pc = "loadCV"
  /\ passes' = [passes EXCEPT ![p].pc = "loadSettings"]
  /\ UNCHANGED <<inputs, aiService, lastResponse, budget, initPc, nPasses, fieldMappings,
                 processedResponse, smartFiller,
                 dom, domLog, timers>>

Finish(p, result) == [passes EXCEPT ![p].pc = "done", ![p].result = result]

\* aiAutoFillForm from the settings to the AI request
SettingsLoaded(p) ==
  /\ passes[p].pc = "loadSettings"
  /\ passes' =
       IF ~passes[p].forceRun /\ ~autoFillEnabled
       THEN Finish(p, [NoResult EXCEPT !.via = "disabled"])
       ELSE IF ~cvValid THEN Finish(p, [NoResult EXCEPT !.via = "invalidCV"])
       ELSE IF Len(pageFields) = 0
            THEN Finish(p, [NoResult EXCEPT !.via = "noFields"])
       ELSE [passes EXCEPT ![p].pc = "aiWait"]
  /\ UNCHANGED <<inputs, aiService, lastResponse, budget, initPc, nPasses, fieldMappings,
                 processedResponse, smartFiller,
                 dom, domLog, timers>>

\* fillForm(mappedFields) of pass p from position k on, in one task: the
\* field at k is filled and the pacing timer set, or the summary returned
\* when the loop is over.  A throw of fillSingleField is rethrown by fillForm
\* and by aiAutoFillForm.
FillFrom(p, k, mapped, sf) ==
  IF k > Len(mapped)
  THEN /\ passes' = [Finish(p, [success |-> TRUE, via |-> "ai", legacyOk |-> FALSE,
                                fill |-> createFillSummary(sf)])
                       EXCEPT ![p].mappedFields = mapped, ![p].idx = k - 1]
       /\ smartFiller' = sf
       /\ SetWorld(W)
  ELSE LET ctx == [pass |-> p, idx |-> k]
           r == fillSingleField(sf, W, ctx, env, mapped[k])
       IN  /\ smartFiller' = r.sf
           /\ IF r.threw
              THEN /\ passes' = [passes EXCEPT ![p].pc = "rejected",
                                               ![p].mappedFields = mapped,
                                               ![p].idx = k]
                   /\ SetWorld(r.w)
              ELSE /\ passes' = [passes EXCEPT ![p].pc = "sleep",
                                               ![p].mappedFields = mapped,
                                               ![p].idx = k]
                   /\ SetWorld(setTimeout(r.w, "sleep", 0, ctx, PacingDelayMs))

\* the AI request resolves: an empty answer goes to the legacy mapper,
\* otherwise processResponse, getMappedFields and the start of fillForm
AIResponded(p) ==
  /\ passes[p].pc = "aiWait"
  /\ IF aiReply = <<>>
     THEN /\ passes' = [passes EXCEPT ![p].pc = "legacyLoadCV"]
          /\ UNCHANGED <<fieldMappings, processedResponse, lastResponse,
                         smartFiller, dom, domLog, timers>>
     ELSE /\ processedResponse' = processResponse(aiReply, pageFields)
          /\ fieldMappings' = processedResponse'.fieldMappings
          /\ lastResponse' = <<processedResponse'>>
          /\ FillFrom(p, 1, getMappedFields(fieldMappings'), reset)
  /\ UNCHANGED <<inputs, aiService, budget, initPc, nPasses>>

\* a catch block that swallowed the error and went on to processResponse
AIFailed_ProcessAnyway(p) ==
  /\ passes[p].pc = "aiWait"
  /\ passes' = [passes EXCEPT ![p].pc = "legacyLoadCV"]
  /\ processedResponse' = processResponse(aiReply, pageFields)
  /\ fieldMappings' = processedResponse'.fieldMappings
  /\ UNCHANGED <<inputs, aiService, lastResponse, budget, initPc, nPasses, smartFiller,
                 dom, domLog, timers>>

\* the AI request rejects (network error, timeout, missing key)
AIFailed(p) ==
  /\ passes[p].pc = "aiWait"
  /\ passes' = [passes EXCEPT ![p].pc = "legacyLoadCV"]
  /\ UNCHANGED <<inputs, aiService, lastResponse, budget, initPc, nPasses, fieldMappings,
                 processedResponse, smartFiller,
                 dom, domLog, timers>>

\* legacyAutoFillForm after `await storageManager.loadCVData()`
LegacyCVDataLoaded(p) ==
  /\ passes[p].pc = "legacyLoadCV"
  /\ passes' = [passes EXCEPT ![p].pc = "legacyLoadSettings"]
  /\ UNCHANGED <<inputs, aiService, lastResponse, budget, initPc, nPasses, fieldMappings,
                 processedResponse, smartFiller,
                 dom, domLog, timers>>

\* legacyAutoFillForm from the settings to its return; aiAutoFillForm
\* reports success whatever the legacy result was
LegacySettingsLoaded(p) ==
  /\ passes[p].pc = "legacyLoadSettings"
  /\ LET declined == ~autoFillEnabled \/ ~cvValid
         r == applyMappedValues(mapFields(W, cvData), 1, [pass |-> p, idx |-> 0], env)
     IN  /\ SetWorld(IF declined THEN W ELSE r.w)
         /\ passes' = Finish(p, [NoResult EXCEPT !.success = TRUE, !.via = "legacy",
                                                 !.legacyOk = ~declined /\ ~r.threw])
  /\ UNCHANGED <<inputs, aiService, lastResponse, budget, initPc, nPasses, fieldMappings,
                 processedResponse, smartFiller>>

(***************************************************************************)
(* Timer callbacks of SmartFiller                                          *)
(***************************************************************************)
\* sleep(50) resolves: fillForm goes on with the next mapping
PacingDelayElapsed ==
  /\ Due("sleep")
  /\ LET t == timers[NextTimer]
         p == t.pass
         ctx == [pass |-> p, idx |-> passes[p].idx + 1]
         rest == AfterFire(timers, NextTimer)
         mapped == passes[p].mappedFields
         k == passes[p].idx + 1
     IN  IF k > Len(mapped)
         THEN /\ passes' = Finish(p, [success |-> TRUE, via |-> "ai",
                                      legacyOk |-> FALSE,
                                      fill |-> createFillSummary(smartFiller)])
              /\ timers' = rest
              /\ UNCHANGED <<smartFiller, dom, domLog>>
         ELSE LET r == fillSingleField(smartFiller, [W EXCEPT !.timers = rest],
                                       ctx, env, mapped[k])
              IN  /\ smartFiller' = r.sf
                  /\ IF r.threw
                     THEN /\ passes' = [passes EXCEPT ![p].pc = "rejected", ![p].idx = k]
                          /\ SetWorld(r.w)
                     ELSE /\ passes' = [passes EXCEPT ![p].idx = k]
                          /\ SetWorld(setTimeout(r.w, "sleep", 0, ctx, PacingDelayMs))
  /\ UNCHANGED <<inputs, aiService, lastResponse, budget, initPc, nPasses, fieldMappings,
                 processedResponse>>

\* the delayed "change" of triggerInputEvents
DelayedChange ==
  /\ Due("change")
  /\ LET t == timers[NextTimer]
         w == [W EXCEPT !.timers = AfterFire(timers, NextTimer)]
     IN  SetWorld(IF env.eventCtor
                  THEN dispatchEvent(w, t.el, [pass |-> t.pass, idx |-> t.idx], "change")
                  ELSE w)
  /\ UNCHANGED <<inputs, aiService, lastResponse, budget, initPc, passes, nPasses, fieldMappings,
                 processedResponse, smartFiller>>

\* the highlight of a filled control is taken back
RestoreHighlight ==
  /\ Due("restore")
  /\ LET t == timers[NextTimer]
         w == [W EXCEPT !.timers = AfterFire(timers, NextTimer)]
     IN  SetWorld(LogWrite(w, t.el, [pass |-> t.pass, idx |-> t.idx], "style"))
  /\ UNCHANGED <<inputs, aiService, lastResponse, budget, initPc, passes, nPasses, fieldMappings,
                 processedResponse, smartFiller>>

Next ==
  \/ InitSettingsLoaded
  \/ AutoFillTimer
  \/ TriggerAutoFill
  \/ \E p \in 1..MaxPasses : CVDataLoaded(p)
  \/ \E p \in 1..MaxPasses : SettingsLoaded(p)
  \/ \E p \in 1..MaxPasses : AIResponded(p)
  \/ \E p \in 1..MaxPasses : AIFailed(p)
  \/ \E p \in 1..MaxPasses : LegacyCVDataLoaded(p)
  \/ \E p \in 1..MaxPasses : LegacySettingsLoaded(p)
  \/ PacingDelayElapsed
  \/ DelayedChange
  \/ RestoreHighlight

Spec == Init /\ [][Next]_vars

(***************************************************************************)
(* A call of sendAIRequest on its own: the calls it makes, the delays it   *)
(* sleeps and what it returns or throws are kept as history.               *)
(***************************************************************************)
page == <<inputs, budget, initPc, passes, nPasses, fieldMappings,
          processedResponse, lastResponse, smartFiller, dom, domLog, timers>>

RequestInit ==
  /\ pageFields = <<>> /\ aiReply = <<>>
  /\ env = [eventCtor |-> TRUE, createEvent |-> TRUE]
  /\ autoFillEnabled = FALSE /\ cvValid = FALSE /\ cvData = [totalMonths |-> 0]
  /\ budget = 0 /\ initPc = "done"
  /\ passes = [p \in 1..MaxPasses |-> IdlePass] /\ nPasses = 0
  /\ fieldMappings = <<>> /\ processedResponse = Null /\ smartFiller = reset
  /\ dom = <<>> /\ domLog = <<>> /\ timers = <<>>
  /\ aiService = [NoRequest EXCEPT !.pc = "call", !.attempt = 1]
  /\ lastResponse = <<>>

\* the awaited API call of the current attempt resolves with content
CallReturnedContent ==
  /\ aiService.pc = "call"
  /\ \E outcome \in CallOutcomes :
       /\ outcome.kind = "content" /\ outcome.content # <<>>
       /\ aiService' = [aiService EXCEPT !.pc = "returned",
                                         !.calls = Append(@, outcome),
                                         !.result = outcome.content]
  /\ UNCHANGED page

\* the current attempt ends in the catch block: the error is rethrown, or
\* the loop sleeps before the next attempt, or the loop is over
CallFailed ==
  /\ aiService.pc = "call"
  /\ \E outcome \in CallOutcomes :
       /\ outcome.kind = "error" \/ outcome.content = <<>>
       /\ LET message == ErrorMessage(outcome)
              caught == [aiService EXCEPT !.calls = Append(@, outcome),
                                          !.lastError = message]
          IN  aiService' =
                IF NoRetry(message)
                THEN [caught EXCEPT !.pc = "thrown", !.result = message]
                ELSE IF aiService.attempt < maxRetries
                     THEN [caught EXCEPT !.pc = "sleep",
                                         !.sleeps = Append(@, Backoff(aiService.attempt))]
                ELSE [caught EXCEPT !.pc = "thrown", !.result = FailedAfter(message)]
  /\ UNCHANGED page

\* the backoff sleep resolves: attempt++ and the next call
SleepResolved ==
  /\ aiService.pc = "sleep"
  /\ aiService' = [aiService EXCEPT !.pc = "call", !.attempt = @ + 1]
  /\ UNCHANGED page

RequestNext == CallReturnedContent \/ CallFailed \/ SleepResolved

\* every awaited call and sleep settles
RequestSpec == RequestInit /\ [][RequestNext]_vars /\ WF_vars(RequestNext)

(***************************************************************************)
(* One ResponseProcessor called again and again, with and without its      *)
(* arguments.                                                              *)
(***************************************************************************)
ProcessorFields == {F_email1, F_uid, F_first, F_last, F_country, F_agree, F_degree}

PageDataArgs ==
  {NullArg} \cup {Obj(<<f>>) : f \in ProcessorFields} \cup {Obj(<<F_email1, F_uid>>)}

ResponseArgs ==
  {NullArg} \cup {Obj(r) : r \in UNION {Responses(EntriesFor(f), 1) : f \in ProcessorFields}}

ProcessorInit ==
  /\ pageFields = <<>> /\ aiReply = <<>>
  /\ env = [eventCtor |-> TRUE, createEvent |-> TRUE]
  /\ autoFillEnabled = FALSE /\ cvValid = FALSE /\ cvData = [totalMonths |-> 0]
  /\ budget = 0 /\ initPc = "done"
  /\ passes = [p \in 1..MaxPasses |-> IdlePass] /\ nPasses = 0
  /\ smartFiller = reset
  /\ dom = <<>> /\ domLog = <<>> /\ timers = <<>>
  /\ aiService = NoRequest
  /\ fieldMappings = resetProcessor.fieldMappings
  /\ processedResponse = resetProcessor.processedResponse
  /\ lastResponse = <<>>

\* responseProcessor.processResponse(aiResponse, pageData)
ProcessResponseCalled ==
  /\ \E aiResponse \in ResponseArgs, pageData \in PageDataArgs :
       LET r == processResponseCall([fieldMappings |-> fieldMappings,
                                     processedResponse |-> processedResponse],
                                    aiResponse, pageData)
       IN  /\ fieldMappings' = r.processor.fieldMappings
           /\ processedResponse' = r.processor.processedResponse
           /\ lastResponse' = <<r.returned>>
  /\ UNCHANGED <<inputs, aiService, budget, initPc, passes, nPasses, smartFiller,
                 dom, domLog, timers>>

ProcessorNext == ProcessResponseCalled

ProcessorSpec == ProcessorInit /\ [][ProcessorNext]_vars

(***************************************************************************)
(* Properties                                                              *)
(***************************************************************************)
HasId(f) == hasOwnProperty(aiReply, f.id)
HasName(f) == f.name # <<>> /\ hasOwnProperty(aiReply, f.name)
HasHtmlId(f) == f.htmlId # <<>> /\ hasOwnProperty(aiReply, f.htmlId)

Returned(p) == passes[p].pc = "done" /\ passes[p].result.via = "ai"

\* C1: the value found for a field is the one under the key field.id when
\* the response has that key; else the one under field.name; else the one
\* under field.htmlId; a label-based match is used only when none of the
\* three keys is present.  For field email1 / "Email Address" and a response
\* with both email1 and email_address the value of email1 is chosen.
C1_MatchCascade ==
  \A i \in DOMAIN fieldMappings :
    LET f == pageFields[i]
        m == fieldMappings[i]
    IN  /\ HasId(f) => m.aiValue = Get(aiReply, f.id)
        /\ ~HasId(f) /\ HasName(f) => m.aiValue = Get(aiReply, f.name)
        /\ ~HasId(f) /\ ~HasName(f) /\ HasHtmlId(f)
             => m.aiValue = Get(aiReply, f.htmlId)
        /\ m.mapped /\ HasId(f) => m.matchMethod = "direct_id"
        /\ m.mapped /\ ~HasId(f) /\ HasName(f) => m.matchMethod = "name_attribute"
        /\ m.mapped /\ ~HasId(f) /\ ~HasName(f) /\ HasHtmlId(f)
             => m.matchMethod = "html_id"
        /\ m.matchMethod = "label_match"
             => ~HasId(f) /\ ~HasName(f) /\ ~HasHtmlId(f)
        /\ (f = F_email1 /\ hasOwnProperty(aiReply, <<"e","m","a","i","l","1">>)
              /\ hasOwnProperty(aiReply, <<"e","m","a","i","l","_","a","d","d","r","e","s","s">>))
             => m.aiValue = Str(<<"a","@","x",".","c","o","m">>)

\* C1 witness: the response lists email_address before email1 and the
\* mapping of field email1 carries the value of email1
C1_Witness ==
  /\ pageFields = <<F_email1>>
  /\ Len(aiReply) = 2
  /\ aiReply[1].key = <<"e","m","a","i","l","_","a","d","d","r","e","s","s">>
  /\ aiReply[2].key = <<"e","m","a","i","l","1">>
  /\ Len(fieldMappings) = 1
  /\ fieldMappings[1].aiValue = Str(<<"a","@","x",".","c","o","m">>)
  /\ fieldMappings[1].matchMethod = "direct_id"

\* the raw value matches an option of the field, exactly or as a substring
MatchesSomeOption(raw, field) ==
  \E i \in DOMAIN field.options :
    LET opt == field.options[i]
    IN  \/ opt.value = raw
        \/ opt.text = raw
        \/ includes(normalizeString(opt.text), normalizeString(raw))
        \/ includes(normalizeString(raw), normalizeString(opt.text))
        \/ includes(normalizeString(opt.value), normalizeString(raw))

\* C2: a select or radio mapping over a non-empty options list is mapped
\* only if its raw value matches some option, and its processedValue is then
\* the value of one of the options.
C2_MappedIsLegalOption ==
  \A i \in DOMAIN fieldMappings :
    LET f == pageFields[i]
        m == fieldMappings[i]
    IN  (f.type \in {"select", "radio"} /\ f.options # <<>> /\ m.mapped)
          => /\ MatchesSomeOption(StringOf(m.aiValue), f)
             /\ \E k \in DOMAIN f.options : m.processedValue = Str(f.options[k].value)

C4_ExactBeforeFuzzy ==
  \A i \in DOMAIN fieldMappings :
    LET f == pageFields[i]
        m == fieldMappings[i]
        exactKeys == {k \in DOMAIN aiReply :
                        normalizeString(aiReply[k].key) = normalizeString(f.label)}
    IN  (~HasId(f) /\ ~HasName(f) /\ ~HasHtmlId(f) /\ f.label # <<>> /\ exactKeys # {})
          => \E k \in exactKeys : m.aiValue = aiReply[k].value

\* the value under one of the keys, in the order given
FirstPresent(keys) ==
  Get(aiReply, keys[First({k \in DOMAIN keys : hasOwnProperty(aiReply, keys[k])})])

\* C5: a field labelled "First Name" that no id, name, htmlId, exact or
\* fuzzy label match resolves is mapped to the value of the key fname or
\* given_name when the response has one; likewise "Last Name" with lname,
\* surname and family_name.
C5_NameAliases ==
  \A i \in DOMAIN fieldMappings :
    LET f == pageFields[i]
        m == fieldMappings[i]
        unresolved == /\ ~HasId(f) /\ ~HasName(f) /\ ~HasHtmlId(f)
                      /\ LabelLoopHit(normalizeString(f.label), aiReply) = 0
        firstKeys == << <<"f","n","a","m","e">>, <<"g","i","v","e","n","_","n","a","m","e">> >>
        lastKeys == << <<"l","n","a","m","e">>, <<"s","u","r","n","a","m","e">>, <<"f","a","m","i","l","y","_","n","a","m","e">> >>
        any(keys) == \E k \in DOMAIN keys : hasOwnProperty(aiReply, keys[k])
    IN  /\ (f.label = <<"F","i","r","s","t"," ","N","a","m","e">> /\ unresolved /\ any(firstKeys))
             => m.mapped /\ m.aiValue = FirstPresent(firstKeys)
        /\ (f.label = <<"L","a","s","t"," ","N","a","m","e">> /\ unresolved /\ any(lastKeys))
             => m.mapped /\ m.aiValue = FirstPresent(lastKeys)

\* the entries of a list of the filler that belong to mapping k of pass p
EntriesOf(list, p, k) == {i \in DOMAIN list : list[i].pass = p /\ list[i].idx = k}

\* a throw of the given kind was caught while mapping k of pass p was filled
Caught(log, kind, p, k) ==
  \E i \in DOMAIN log :
    log[i].op = "throw" /\ log[i].name = kind /\ log[i].pass = p /\ log[i].idx = k

\* C6 as stated: a mapping for which element lookup, the setter or event
\* dispatch threw has no Filled entry (it is Failed or Skipped), no call is
\* rejected, and a returned call has processed every mapping of its list.
C6_ThrowNeverFilled ==
  /\ \A i \in DOMAIN smartFiller.filledFields :
       LET e == smartFiller.filledFields[i]
       IN  ~Caught(domLog, "lookup", e.pass, e.idx)
           /\ ~Caught(domLog, "setter", e.pass, e.idx)
  /\ \A p \in 1..MaxPasses :
       /\ passes[p].pc # "rejected"
       /\ Returned(p) => passes[p].idx = Len(passes[p].mappedFields)

C6_NeverRejects ==
  \A p \in 1..MaxPasses :
    /\ passes[p].pc # "rejected"
    /\ Returned(p) => /\ passes[p].idx = Len(passes[p].mappedFields)
                      /\ passes[p].result.success

\* the step in which mapping k of pass p is filled
C6_FieldStep ==
  \A p \in 1..MaxPasses :
    \A k \in 1..Len(passes'[p].mappedFields) :
      (passes'[p].idx = k /\ passes[p].idx = k - 1) =>
        LET inFilled == EntriesOf(smartFiller'.filledFields, p, k)
            inFailed == EntriesOf(smartFiller'.failedFields, p, k)
            inSkipped == EntriesOf(smartFiller'.skippedFields, p, k)
        IN  /\ Cardinality(inFilled) + Cardinality(inFailed)
                 + Cardinality(inSkipped) = 1
            /\ Caught(domLog', "lookup", p, k) => inFailed # {}
            /\ Caught(domLog', "setter", p, k) => inFilled # {}

\* C6 (amended): no fillForm call is rejected; a returned call has processed
\* every mapping of its list and carries a summary; and the step that fills
\* a mapping records it exactly once: as Failed when element lookup threw,
\* as Filled when the setter or event dispatch threw and the raw assignment
\* of the catch block went through.
C6_IsolatedFailure == [](C6_NeverRejects) /\ [][C6_FieldStep]_vars

\* C6 witness: a call returned although the lookup of its first mapping
\* threw, and its second mapping was filled
C6_Witness ==
  \E p \in 1..MaxPasses :
    /\ Returned(p)
    /\ Len(passes[p].mappedFields) = 2
    /\ Caught(domLog, "lookup", p, 1)
    /\ \E i \in DOMAIN passes[p].result.fill.filledFields :
         LET e == passes[p].result.fill.filledFields[i]
         IN  e.pass = p /\ e.idx = 2

\* C7: within one fillForm call, once the control of mapping j has been
\* written nothing more happens to the control of an earlier mapping: no
\* event is dispatched on it and nothing is written to it.
C7_NoLateEvents ==
  \A i, j \in DOMAIN domLog :
    (/\ i < j
     /\ domLog[i].op = "write" /\ domLog[i].name \in {"value", "checked"}
     /\ domLog[j].op \in {"event", "write"}
     /\ domLog[i].pass = domLog[j].pass
     /\ domLog[i].idx >= 1 /\ domLog[j].idx >= 1)
      => domLog[j].idx >= domLog[i].idx

\* C8: a pass never begins while another pass is suspended at its AI
\* request or at an inter-field pacing delay.
C8_OnePassAtATime ==
  [][\A q \in 1..MaxPasses :
       (passes[q].pc = "none" /\ passes'[q].pc # "none") =>
         \A p \in 1..MaxPasses : p # q => passes[p].pc \notin {"aiWait", "sleep"}]_vars

\* C9: on a page whose only field is a file field for which the response
\* has a value, the returned summary has skipped = 1, filled = 0, failed = 0.
C9_FileSkipped ==
  \A p \in 1..MaxPasses :
    (/\ Returned(p)
     /\ Len(pageFields) = 1 /\ pageFields[1].type = "file"
     /\ Len(fieldMappings) = 1 /\ fieldMappings[1].mapped)
      => /\ passes[p].result.fill.skipped = 1
         /\ passes[p].result.fill.filled = 0
         /\ passes[p].result.fill.failed = 0

TrueWords ==
  { <<"t","r","u","e">>, <<"y","e","s">>, <<"1">>, <<"o","n">>, <<"c","h","e","c","k","e","d">> }

\* C10: for a checkbox field and a string value, processedValue is true
\* exactly when the value, lower-cased, is one of true, yes, 1, on, checked;
\* and once the filler has filled the control, its checked state is that
\* same boolean.
C10_CheckboxWords ==
  /\ \A i \in DOMAIN fieldMappings :
       LET f == pageFields[i]
           m == fieldMappings[i]
       IN  (f.type = "checkbox" /\ m.mapped /\ m.aiValue.t = "str")
             => m.processedValue = Bool(toLowerCase(m.aiValue.s) \in TrueWords)
  /\ \A i \in DOMAIN smartFiller.filledFields :
       LET e == smartFiller.filledFields[i]
           m == passes[e.pass].mappedFields[e.idx]
       IN  (e.fieldType = "checkbox" /\ m.aiValue.t = "str" /\ Len(dom) = 1)
             => dom[1].checked = (toLowerCase(m.aiValue.s) \in TrueWords)


\* the select mappings the reconciler produced from a string value
SelectMappings ==
  {i \in DOMAIN fieldMappings :
     /\ pageFields[i].type = "select" /\ pageFields[i].options # <<>>
     /\ fieldMappings[i].mapped /\ fieldMappings[i].aiValue.t = "str"}

\* the select entries of filledFields on a page whose only control is the
\* select element
FilledSelects ==
  {i \in DOMAIN smartFiller.filledFields :
     smartFiller.filledFields[i].fieldType = "select" /\ Len(dom) = 1}

\* C11: when some option's value equals the input exactly, the reconciler
\* resolves the select to that value, whatever the texts of the other
\* options are, and the filler leaves the select element on that value.
C11_ExactValueFirst ==
  /\ \A i \in SelectMappings :
       LET v == fieldMappings[i].aiValue.s
       IN  (\E o \in DOMAIN pageFields[i].options : pageFields[i].options[o].value = v)
             => fieldMappings[i].processedValue = Str(v)
  /\ \A i \in FilledSelects :
       LET e == smartFiller.filledFields[i]
           m == passes[e.pass].mappedFields[e.idx]
       IN  (/\ m.aiValue.t = "str"
            /\ \E o \in DOMAIN dom[1].options : dom[1].options[o].value = m.aiValue.s)
             => dom[1].value = m.aiValue.s

\* case-insensitive substring containment between an option text and the
\* input, in either direction
ContainsCI(text, v) ==
  \/ includes(toLowerCase(text), toLowerCase(v))
  \/ includes(toLowerCase(v), toLowerCase(text))

\* C12: when no option equals the input by value or by text, the select
\* resolves to the first option whose text and the input are related by
\* case-insensitive substring containment.
C12_SubstringFallback ==
  \A i \in SelectMappings :
    LET v == fieldMappings[i].aiValue.s
        options == pageFields[i].options
        exact == {o \in DOMAIN options :
                    options[o].value = v \/ toLowerCase(options[o].text) = toLowerCase(v)}
        related == {o \in DOMAIN options : ContainsCI(options[o].text, v)}
    IN  (exact = {} /\ related # {})
          => fieldMappings[i].processedValue = Str(options[First(related)].value)

\* the input 'Canada, eh' against US/'United States', CA/'Canada'
C12_CanadaEh ==
  \E i \in SelectMappings :
    /\ fieldMappings[i].aiValue.s = <<"C","a","n","a","d","a",","," ","e","h">>
    /\ fieldMappings[i].processedValue = Str(<<"C","A">>)


\* the number an option stands for: read from its value, else from its text
OptionNumber(option) ==
  IF ~parseInt(option.value).nan THEN parseInt(option.value)
  ELSE parseInt(option.text)

\* a call of the legacy mapper that went through
LegacyDone(p) ==
  passes[p].pc = "done" /\ passes[p].result.via = "legacy" /\ passes[p].result.legacyOk

\* C13: when no option of an experience-years dropdown equals the number of
\* years, the legacy mapper leaves the dropdown on the option whose number
\* is closest to it, the first such option among equally close ones.
C13_NearestOption ==
  \A p \in 1..MaxPasses :
    LegacyDone(p) =>
      \A i \in DOMAIN dom :
        IsExperienceYears(dom[i]) =>
          LET options == dom[i].options
              years == calculateTotalExperience(cvData).years
              target == NatToString(years)
              exact == {o \in DOMAIN options :
                          \/ toLowerCase(options[o].value) = target
                          \/ toLowerCase(options[o].text) = target}
              numeric == {o \in DOMAIN options : ~OptionNumber(options[o]).nan}
              nearest == {o \in numeric : \A q \in numeric :
                            Abs(years - OptionNumber(options[o]).n)
                              <= Abs(years - OptionNumber(options[q]).n)}
          IN  (exact = {} /\ numeric # {})
                => dom[i].value = options[First(nearest)].value


\* C14: coercing the coerced value of a mapped field again, for the same
\* field, gives the same value.
C14_CoercionFixedPoint ==
  \A i \in DOMAIN fieldMappings :
    fieldMappings[i].mapped =>
      processValueForField(fieldMappings[i].processedValue, pageFields[i])
        = fieldMappings[i].processedValue


\* C15: validation is not valid and names the label of every required field
\* that is not mapped; it is valid exactly when the count of mapped required
\* fields equals the count of required fields; and every field is mapped as
\* it would be on a page that had no other field.
C15_RequiredValidation ==
  processedResponse # Null =>
    LET v == processedResponse.validation
        m == processedResponse.fieldMappings
    IN  /\ \A i \in DOMAIN m :
             (m[i].required /\ ~m[i].mapped) =>
               /\ ~v.valid
               /\ \E k \in DOMAIN v.criticalErrors :
                    includes(v.criticalErrors[k], m[i].fieldLabel)
        /\ v.valid <=> (v.requiredFieldsMapped = v.requiredFieldsTotal)
        /\ v.requiredFieldsTotal = Cardinality({i \in DOMAIN m : m[i].required})
        /\ v.requiredFieldsMapped
             = Cardinality({i \in DOMAIN m : m[i].required /\ m[i].mapped})
        /\ \A i \in DOMAIN m :
             m[i] = createFieldMappings(aiReply, <<pageFields[i]>>)[1]

\* C15 witness: a required field was not mapped, validation says so, and
\* the other field of the page was mapped and filled
C15_Witness ==
  /\ processedResponse # Null
  /\ ~processedResponse.validation.valid
  /\ Len(processedResponse.validation.criticalErrors) = 1
  /\ processedResponse.mappedFields = 1
  /\ \E p \in 1..MaxPasses : Returned(p) /\ passes[p].result.fill.filled = 1


TextLike == {"text", "email", "tel", "url", "password", "textarea"}

InCallOrder(list) ==
  /\ \A i, j \in DOMAIN list :
       (i < j /\ list[i].pass = list[j].pass) => list[i].idx < list[j].idx
  /\ \A i \in DOMAIN list :
       /\ list[i].idx \in DOMAIN passes[list[i].pass].mappedFields
       /\ list[i].fieldId = passes[list[i].pass].mappedFields[list[i].idx].fieldId

ListsInCallOrder(sf) ==
  InCallOrder(sf.filledFields) /\ InCallOrder(sf.failedFields)
    /\ InCallOrder(sf.skippedFields)

ResolvedControl(m) ==
  LET byId == {i \in DOMAIN dom : dom[i].id = m.fieldId}
      byName == {i \in DOMAIN dom : dom[i].name = m.fieldId}
      byClass == {i \in DOMAIN dom : dom[i].className = m.fieldId}
      byLabel == {i \in DOMAIN dom :
                    /\ m.fieldLabel # <<>> /\ dom[i].labelText # <<>>
                    /\ includes(toLowerCase(dom[i].labelText), toLowerCase(m.fieldLabel))}
  IN  IF byId # {} THEN First(byId)
      ELSE IF byName # {} THEN First(byName)
      ELSE IF byClass # {} THEN First(byClass)
      ELSE IF byLabel # {} THEN First(byLabel)
      ELSE 0

\* the same control, or two radio buttons of one group
SameControl(a, b) ==
  \/ a = b
  \/ /\ dom[a].type = "radio" /\ dom[b].type = "radio"
     /\ dom[a].name = dom[b].name

\* every entry of the three lists of the filler
AllEntries ==
  Range(smartFiller.filledFields) \cup Range(smartFiller.failedFields)
    \cup Range(smartFiller.skippedFields)

\* C18: a mapping is recorded with 'Element not found in DOM' only when no
\* lookup of the order id, name, class, label finds a control; when one
\* does, the lookup does not fail, and whatever the filler writes or
\* dispatches for the mapping goes to the first control found in that order
\* (for a radio button, to a button of its group).
C18_LookupOrder ==
  \A e \in AllEntries :
    LET m == passes[e.pass].mappedFields[e.idx]
        resolved == ResolvedControl(m)
    IN  /\ e.note = "Element not found in DOM" => resolved = 0
        /\ resolved # 0 =>
             /\ e.note \notin {"Element not found in DOM", "SyntaxError"}
             /\ \A i \in DOMAIN domLog :
                  (/\ domLog[i].op \in {"write", "event"}
                   /\ domLog[i].pass = e.pass /\ domLog[i].idx = e.idx)
                    => SameControl(domLog[i].el, resolved)

\* a rendered-again control was found by its label and filled
C18_FoundByLabel ==
  \E e \in Range(smartFiller.filledFields) :
    LET m == passes[e.pass].mappedFields[e.idx]
    IN  /\ \A i \in DOMAIN dom : dom[i].id # m.fieldId /\ dom[i].name # m.fieldId
        /\ ResolvedControl(m) # 0


\* C19: in the step that fills a mapping whose resolved control is disabled,
\* read-only or not visible, the mapping is recorded as skipped because the
\* element is not fillable, the control keeps its value and checked state,
\* and no event is dispatched on it.
C19_NotFillableFrame ==
  [][\A p \in 1..MaxPasses :
       \A k \in 1..Len(passes'[p].mappedFields) :
         (passes'[p].idx = k /\ passes[p].idx = k - 1) =>
           LET resolved == ResolvedControl(passes'[p].mappedFields[k])
               unfit == \/ dom[resolved].disabled \/ dom[resolved].readOnly
                        \/ ~dom[resolved].visible
           IN  (resolved # 0 /\ unfit) =>
                 /\ \E i \in EntriesOf(smartFiller'.skippedFields, p, k) :
                      smartFiller'.skippedFields[i].note
                        = "Element not fillable (disabled/readonly)"
                 /\ EntriesOf(smartFiller'.filledFields, p, k) = {}
                 /\ EntriesOf(smartFiller'.failedFields, p, k) = {}
                 /\ dom'[resolved].value = dom[resolved].value
                 /\ dom'[resolved].checked = dom[resolved].checked
                 /\ \A i \in (Len(domLog) + 1)..Len(domLog') :
                      domLog'[i].el # resolved]_vars

\* C19 witness: a call returned after it skipped the disabled select of the
\* page, which still has no value, and filled the other field
C19_Witness ==
  \E p \in 1..MaxPasses :
    /\ Returned(p)
    /\ Len(dom) = 2 /\ dom[1].disabled /\ dom[1].value = <<>>
    /\ \E i \in DOMAIN passes[p].result.fill.skippedFields :
         LET e == passes[p].result.fill.skippedFields[i]
         IN  e.pass = p /\ e.idx = 1
               /\ e.note = "Element not fillable (disabled/readonly)"
    /\ passes[p].result.fill.filled >= 1


\* the raw assignment of the catch block was made for mapping k of pass p:
\* the last write of the mapping's step follows the caught throw
RawAssigned(p, k) ==
  \E i, j \in DOMAIN domLog :
    /\ i < j
    /\ domLog[i].op = "throw" /\ domLog[i].name = "setter"
    /\ domLog[i].pass = p /\ domLog[i].idx = k
    /\ domLog[j].op = "write" /\ domLog[j].name = "value"
    /\ domLog[j].pass = p /\ domLog[j].idx = k

\* C20: when element lookup, the setter or event dispatch threw for a
\* mapping, the raw assignment was attempted for it, and the mapping is in
\* failedFields only if that assignment threw as well.
C20_PrimitiveFallback ==
  \A e \in AllEntries :
    (Caught(domLog, "lookup", e.pass, e.idx) \/ Caught(domLog, "setter", e.pass, e.idx))
      => /\ RawAssigned(e.pass, e.idx) \/ Caught(domLog, "raw", e.pass, e.idx)
         /\ e \in Range(smartFiller.failedFields)
              => Caught(domLog, "raw", e.pass, e.idx)

\* a setter threw, the raw assignment went through and the mapping is filled
C20_SetterFallback ==
  \E e \in Range(smartFiller.filledFields) :
    Caught(domLog, "setter", e.pass, e.idx) /\ RawAssigned(e.pass, e.idx)


\* the pass is inside legacyAutoFillForm, or returned from it
InLegacy(p) ==
  \/ passes[p].pc \in {"legacyLoadCV", "legacyLoadSettings"}
  \/ passes[p].pc = "done" /\ passes[p].result.via = "legacy"

\* the entries the fillForm call of pass p left in the lists of the filler
FillEntries(p) ==
  {e \in Range(smartFiller.filledFields) \cup Range(smartFiller.failedFields)
           \cup Range(smartFiller.skippedFields) : e.pass = p}

\* C21: the step by which a pass leaves the AI request for the legacy
\* fallback changes neither the state of the response processor nor that of
\* the filler nor the document, and a pass that went to the fallback has no
\* mapped fields, no entry in the lists of the filler, and has written to
\* the document only from the legacy mapper (position 0 of the pass).
C21_AbortedBeforeFill ==
  [][\A p \in 1..MaxPasses :
       /\ (passes[p].pc = "aiWait" /\ passes'[p].pc = "legacyLoadCV")
            => UNCHANGED <<processedResponse, fieldMappings, smartFiller,
                           dom, domLog, timers>>
       /\ InLegacy(p)'
            => /\ passes'[p].mappedFields = <<>>
               /\ FillEntries(p)' = {}
               /\ \A i \in DOMAIN domLog' : domLog'[i].pass = p => domLog'[i].idx = 0]_vars

\* the request failed for a page whose answer would have mapped a field,
\* and the legacy mapper then wrote to the document
C21_Witness ==
  \E p \in 1..MaxPasses :
    /\ passes[p].pc = "done" /\ passes[p].result.via = "legacy"
    /\ getMappedFields(createFieldMappings(aiReply, pageFields)) # <<>>
    /\ processedResponse = Null
    /\ \E i \in DOMAIN domLog : domLog[i].pass = p /\ domLog[i].op = "write"


Reversed(seq) == [i \in 1..Len(seq) |-> seq[Len(seq) + 1 - i]]

\* C22: the mapping processResponse keeps for a field of the page is the
\* one createFieldMappings produces for that field alone against the same
\* response, and the one it produces for it when the fields of the page come
\* in the opposite order.
C22_IndependentMatching ==
  processedResponse # Null =>
    \A i \in DOMAIN pageFields :
      /\ fieldMappings[i] = createFieldMappings(aiReply, <<pageFields[i]>>)[1]
      /\ fieldMappings[i] = createFieldMappings(aiReply, Reversed(pageFields))
                              [Len(pageFields) + 1 - i]

\* two fields of one page were both answered from the same, single key
C22_Witness ==
  /\ processedResponse # Null
  /\ Len(aiReply) = 1 /\ Len(pageFields) = 2
  /\ fieldMappings[1].mapped /\ fieldMappings[2].mapped
  /\ fieldMappings[1].aiValue = aiReply[1].value
  /\ fieldMappings[2].aiValue = aiReply[1].value


HasContent(outcome) == outcome.kind = "content" /\ outcome.content # <<>>

\* the message of a failed call names an API key, a quota or a connection
Fatal(outcome) ==
  LET message == IF outcome.kind = "error" THEN outcome.message
                 ELSE <<"N","o"," ","v","a","l","i","d"," ","r","e","s","p","o","n","s","e"," ","f","r","o","m"," ","A","I">>
  IN  \/ includes(message, <<"A","P","I"," ","k","e","y">>)
      \/ includes(message, <<"q","u","o","t","a">>)
      \/ includes(message, <<"c","o","n","n","e","c","t","i","o","n">>)

Settled == aiService.pc \in {"returned", "thrown"}

C23_Shape ==
  LET calls == aiService.calls
      n == Len(calls)
  IN  /\ n <= 3 /\ aiService.attempt <= 3
      /\ \A k \in 1..(n - 1) : ~HasContent(calls[k]) /\ ~Fatal(calls[k])
      /\ aiService.pc \in {"call", "sleep"} =>
           \A k \in 1..n : ~HasContent(calls[k]) /\ ~Fatal(calls[k])
      /\ aiService.pc = "returned" =>
           HasContent(calls[n]) /\ aiService.result = calls[n].content
      /\ aiService.pc = "thrown" =>
           /\ ~HasContent(calls[n])
           /\ IF Fatal(calls[n])
              THEN aiService.result = calls[n].message
              ELSE /\ n = 3
                   /\ includes(aiService.result, <<"A","I"," ","r","e","q","u","e","s","t"," ","f","a","i","l","e","d"," ","a","f","t","e","r"," ","3"," ","a","t","t","e","m","p","t","s">>)
      /\ Len(aiService.sleeps) = IF Settled THEN n - 1 ELSE n
      /\ Settled /\ n = 3 => Len(aiService.sleeps) = 2
      /\ \A k \in DOMAIN aiService.sleeps :
           aiService.sleeps[k] = (IF k = 1 THEN 2 ELSE 4) * 1000

\* C23: a call of sendAIRequest makes at most three attempts; it goes on
\* to another attempt only after a failure whose message names neither an
\* API key nor a quota nor a connection; it returns the content of the first
\* attempt that has some, rethrows the first error that names one of the
\* three, and throws "AI request failed after 3 attempts" after a third
\* failure; it has slept 2 s after the first and 4 s after the second failed
\* attempt and never after the last one; and it does return or throw.
C23_BoundedRetries == []C23_Shape /\ <>Settled

\* the third attempt failed as well and the call threw after two sleeps
C23_Witness ==
  /\ aiService.pc = "thrown" /\ Len(aiService.calls) = 3
  /\ ~Fatal(aiService.calls[3])
  /\ aiService.sleeps = <<2000, 4000>>


\* the step in which legacyAutoFillForm of pass p runs from its settings to
\* its return
LegacyStep(p) ==
  passes[p].pc = "legacyLoadSettings" /\ passes'[p].pc = "done"

\* C24: in a step of the legacy mapper a control whose value changes was
\* mapped to a non-empty value and was empty or showed its placeholder, and
\* its new value is the mapped one; the legacy mapper writes to, and
\* dispatches events on, no other control, and changes no checked state.
C24_NoOverwrite ==
  [][\A p \in 1..MaxPasses : LegacyStep(p) =>
       \A i \in DOMAIN dom :
         LET mappedValue == getMappedValue(dom[i], cvData)
             empty == dom[i].value = <<>> \/ dom[i].value = dom[i].placeholder
             touched == \E k \in (Len(domLog) + 1)..Len(domLog') : domLog'[k].el = i
         IN  /\ dom'[i].checked = dom[i].checked
             /\ dom'[i].value # dom[i].value => dom'[i].value = mappedValue
             /\ touched => mappedValue # <<>> /\ empty
             /\ ~(mappedValue # <<>> /\ empty) => dom'[i].value = dom[i].value]_vars

\* a legacy pass has run on a page where an earlier pass had filled a text
\* control: the control still holds that value, not the one of the CV
C24_Witness ==
  \E p \in 1..MaxPasses : \E i \in DOMAIN dom :
    /\ passes[p].pc = "done" /\ passes[p].result.via = "legacy"
    /\ passes[p].result.legacyOk
    /\ dom[i].legacyValue # <<>>
    /\ dom[i].value # <<>> /\ dom[i].value # dom[i].legacyValue
    /\ \E k \in DOMAIN domLog :
         domLog[k].el = i /\ domLog[k].pass # p /\ domLog[k].name = "value"


\* the entries of a returned summary that belong to mapping k of call p
SummaryEntries(fill, p, k) ==
  {<<list, i>> \in ({"filled"} \X DOMAIN fill.filledFields)
                     \cup ({"failed"} \X DOMAIN fill.failedFields)
                     \cup ({"skipped"} \X DOMAIN fill.skippedFields) :
     LET e == IF list = "filled" THEN fill.filledFields[i]
              ELSE IF list = "failed" THEN fill.failedFields[i]
              ELSE fill.skippedFields[i]
     IN  e.pass = p /\ e.idx = k}

\* C25: the summary a fillForm call returns counts as many attempts as the
\* call was given mappings, and holds each of these mappings in exactly one
\* of its three lists.
C25_SummaryPerCall ==
  \A p \in 1..MaxPasses : Returned(p) =>
    LET fill == passes[p].result.fill
    IN  /\ fill.totalAttempted = Len(passes[p].mappedFields)
        /\ \A k \in DOMAIN passes[p].mappedFields :
             Cardinality(SummaryEntries(fill, p, k)) = 1


\* C26: a pass that fell back to the legacy mapper reports success only if
\* legacyAutoFillForm went through applyMappedValues without declining and
\* without an exception.
C26_LegacySuccess ==
  \A p \in 1..MaxPasses :
    (passes[p].pc = "done" /\ passes[p].result.via = "legacy"
       /\ passes[p].result.success)
      => passes[p].result.legacyOk

\* a forced pass on a page with auto-fill disabled reported success although
\* the legacy mapper declined and wrote nothing
C26_DeclinedButSuccess ==
  \E p \in 1..MaxPasses :
    /\ passes[p].pc = "done" /\ passes[p].result.via = "legacy"
    /\ passes[p].result.success /\ ~passes[p].result.legacyOk
    /\ passes[p].forceRun /\ ~autoFillEnabled
    /\ \A i \in DOMAIN domLog : domLog[i].pass # p


C27_ClearedByFailure ==
  /\ lastResponse # <<>> /\ ~lastResponse[1].success
  /\ fieldMappings = <<>> /\ processedResponse = Null


\* a call without a response, after a successful call: it returned
\* success = false and the mappings of the earlier call are still handed out
C27_SurvivedFailure ==
  /\ lastResponse # <<>> /\ ~lastResponse[1].success
  /\ getMappedFields(fieldMappings) # <<>>
  /\ processedResponse # Null /\ getSummary(processedResponse).success


\* the mappings a fillForm call has gone through so far, as <<pass, position>>
Attempted ==
  {<<p, k>> \in (1..MaxPasses) \X (1..Len(pageFields)) :
     k <= passes[p].idx /\ k <= Len(passes[p].mappedFields)}

\* mapping k of pass p carries "" for a select or a radio group none of
\* whose options has the value ""
EmptyChoice(p, k) ==
  LET m == passes[p].mappedFields[k]
  IN  /\ m.processedValue = Str(<<>>)
      /\ m.fieldType \in {"select", "radio"}
      /\ \A i \in DOMAIN dom :
           dom[i].type = m.fieldType =>
             /\ dom[i].value # <<>> \/ m.fieldType = "select"
             /\ \A o \in DOMAIN dom[i].options : dom[i].options[o].value # <<>>

\* C28: a mapping whose processed value is "" for a select or a radio
\* group without an option of value "" writes no value and no checked
\* state, and is not recorded as filled.
C28_EmptyChoosesNothing ==
  \A <<p, k>> \in Attempted : EmptyChoice(p, k) =>
    /\ \A i \in DOMAIN domLog :
         (domLog[i].pass = p /\ domLog[i].idx = k)
           => ~(domLog[i].op = "write" /\ domLog[i].name \in {"value", "checked"})
    /\ \A i \in DOMAIN smartFiller.filledFields :
         ~(smartFiller.filledFields[i].pass = p /\ smartFiller.filledFields[i].idx = k)

\* "" for a group of radios: the first radio with a label was checked
C28_RadioChecked ==
  \E <<p, k>> \in Attempted :
    /\ EmptyChoice(p, k) /\ passes[p].mappedFields[k].fieldType = "radio"
    /\ \E i \in DOMAIN dom : dom[i].type = "radio" /\ dom[i].checked


\* C29: every value or checked state the filler writes in a step goes to a
\* control that was fillable (not disabled, not read-only, visible) when the
\* step began.
C29_WritesOnlyFillable ==
  [][\A i \in (Len(domLog) + 1)..Len(domLog') :
       (/\ domLog'[i].idx >= 1
        /\ domLog'[i].op = "write" /\ domLog'[i].name \in {"value", "checked"})
         => isElementFillable(dom[domLog'[i].el])]_vars

\* a disabled radio of a group is checked
C29_DisabledChecked ==
  \E i \in DOMAIN dom :
    dom[i].type = "radio" /\ dom[i].disabled /\ dom[i].checked


\* C30: when a field is answered by the first loop of label matching, the
\* normalized label and the normalized key it was answered from are both
\* non-empty (and one contains the other).
C30_NoEmptyLabelMatch ==
  processedResponse # Null =>
    \A i \in DOMAIN fieldMappings :
      LET normalizedLabel == normalizeString(pageFields[i].label)
          hit == LabelLoopHit(normalizedLabel, aiReply)
      IN  (/\ fieldMappings[i].mapped
           /\ fieldMappings[i].matchMethod = "label_match"
           /\ hit # 0)
            => LET normalizedKey == normalizeString(aiReply[hit].key)
               IN  /\ normalizedLabel # <<>> /\ normalizedKey # <<>>
                   /\ \/ includes(normalizedLabel, normalizedKey)
                      \/ includes(normalizedKey, normalizedLabel)

\* the field "Phone" was answered from the key "___"
C30_PunctuationKey ==
  /\ processedResponse # Null /\ Len(fieldMappings) = 1 /\ Len(aiReply) = 1
  /\ normalizeString(aiReply[1].key) = <<>>
  /\ fieldMappings[1].mapped /\ fieldMappings[1].aiValue = aiReply[1].value

====
